---------------------------- MODULE Spec2Model ----------------------------
(***************************************************************************)
(* A model of the Potential Field Engine "trunk": the layer objects of     *)
(* src/layers.py and PotentialFieldEngine of src/potential_field_engine.py *)
(*                                                                         *)
(* Number model.  The program computes with floats; the model computes on  *)
(* an integer grid:                                                        *)
(*   - positions, velocities, forces, times and dt are integers; dt is     *)
(*     even so that h = dt/2 is on the grid;                               *)
(*   - energy-valued quantities (V, K, E) are carried DOUBLED, so that the *)
(*     factor 1/2 of K = (1/2) m |v|^2 stays exact: a name ending in 2     *)
(*     (V2, K2, energy2) holds twice the program's value;                  *)
(*   - gamma is counted in units of ln 2 per tick, so exp(-gamma*h) is     *)
(*     exactly 1/2^(gamma*h); products with it are truncated to the grid;  *)
(*   - angles are counted in eighths of a turn, so omega*dt (dt even) is a *)
(*     whole number of quarter turns and cos, sin are exact;               *)
(*   - sqrt is the integer square root (truncation to the grid).           *)
(* Python's None is the empty sequence <<>>, a present value v is <<v>>.   *)
(***************************************************************************)
EXTENDS Integers, Sequences, FiniteSets, TLC

None == <<>>
Some(v) == <<v>>
IsNone(o) == o = <<>>
Get(o) == o[1]

\* sequencing: K applied to the value v
Bind(v, K(_)) == K(v)

Ok(v) == [ok |-> TRUE, val |-> v, exc |-> "none"]
Raise(e) == [ok |-> FALSE, val |-> <<>>, exc |-> e]

(***************************************************************************)
(* numpy arithmetic on 1-d arrays                                          *)
(***************************************************************************)
Abs(a) == IF a >= 0 THEN a ELSE -a

TruncDiv(a, b) == IF a >= 0 THEN a \div b ELSE -((-a) \div b)

RECURSIVE Pow2(_)
Pow2(k) == IF k <= 0 THEN 1 ELSE 2 * Pow2(k - 1)

RECURSIVE IsqrtFrom(_, _)
IsqrtFrom(n, r) == IF (r + 1) * (r + 1) > n THEN r ELSE IsqrtFrom(n, r + 1)

Isqrt(n) == IsqrtFrom(n, 0)

Zeros(n) == [i \in 1..n |-> 0]

\* a + b of two ndarrays whose shapes numpy accepts: equal lengths, or one
\* operand of length 1 that is broadcast over the other
VAdd(a, b) ==
    IF Len(a) = Len(b) THEN [i \in 1..Len(a) |-> a[i] + b[i]]
    ELSE IF Len(b) = 1 THEN [i \in 1..Len(a) |-> a[i] + b[1]]
    ELSE [i \in 1..Len(b) |-> a[1] + b[i]]

VScale(c, a) == [i \in 1..Len(a) |-> c * a[i]]

RECURSIVE DotFrom(_, _, _)
DotFrom(a, b, i) == IF i > Len(a) THEN 0 ELSE a[i] * b[i] + DotFrom(a, b, i + 1)

Dot(a, b) == DotFrom(a, b, 1)

Concat(a, b) == a \o b

\* a + b with numpy broadcasting of a length-1 operand; other length
\* mismatches raise ValueError ("operands could not be broadcast together")
NpAdd(a, b) ==
    IF Len(a) = Len(b) THEN Ok(VAdd(a, b))
    ELSE IF Len(b) = 1 THEN Ok([i \in 1..Len(a) |-> a[i] + b[1]])
    ELSE IF Len(a) = 1 THEN Ok([i \in 1..Len(b) |-> a[1] + b[i]])
    ELSE Raise("ValueError")

\* exp(-k ln 2) * a, truncated to the grid
MulExpNeg(k, a) == [i \in 1..Len(a) |-> TruncDiv(a[i], Pow2(k))]

\* cos and sin of theta eighths of a turn; theta is even (dt is even)
Cos(theta) == CASE theta % 8 = 0 -> 1 [] theta % 8 = 2 -> 0
                [] theta % 8 = 4 -> -1 [] theta % 8 = 6 -> 0

Sin(theta) == CASE theta % 8 = 0 -> 0 [] theta % 8 = 2 -> 1
                [] theta % 8 = 4 -> 0 [] theta % 8 = 6 -> -1

(***************************************************************************)
(* The random number generator: np.random.default_rng(seed).  A stream is  *)
(* its seed and the number of samples drawn so far; sample k of a stream   *)
(* is a fixed function of the seed.                                        *)
(***************************************************************************)
Xi(seed, k) == ((seed * k * k + seed + k) % 3) - 1

DefaultRng(seed) == [seed |-> seed, pos |-> 0]

\* rng.standard_normal(shape): n samples, the stream moves on by n
StandardNormal(rng, n) ==
    [val |-> [i \in 1..n |-> Xi(rng.seed, rng.pos + i)],
     rng |-> [rng EXCEPT !.pos = rng.pos + n]]

(***************************************************************************)
(* The caller-supplied functions (external collaborators).                 *)
(***************************************************************************)
\* the bias vector b, and so the dimension, of the sample well
WellB == <<0, 0>>

\* V(x), doubled.  "hopfield": create_potential_from_wells with W = -I,
\* b = WellB, E = -(1/2) x.Wx - b.x; "flat": flat_potential
PotentialFunc(id, x) ==
    CASE id = "hopfield" ->
             IF Len(x) # Len(WellB) THEN Raise("ValueError")
             ELSE Ok(Dot(x, x) - 2 * Dot(WellB, x))
      [] id = "flat" -> Ok(0)

\* g(x).  "wells": create_field_from_wells, g = Wx + b with W = -I;
\* "restoring": the analytic field -k x of a harmonic potential, any dim
FieldFunc(id, x) ==
    CASE id = "wells" ->
             IF Len(x) # Len(WellB) THEN Raise("ValueError")
             ELSE Ok(VAdd(VScale(-1, x), WellB))
      [] id = "restoring" -> Ok(VScale(-1, x))

\* I(x, v, t).  "drive": grows with time and feeds on the velocity;
\* "planar": a push written for two dimensions, whatever x it is given
InjectionFunc(id, x, v, t) ==
    CASE id = "drive" -> Ok([i \in 1..Len(x) |-> t + v[i]])
      [] id = "planar" -> Ok(<<t, t>>)

\* legacy rotational_func(x): a swirl around the origin, one argument only
\* (the two-argument call raises TypeError and the layer falls back)
CallbackFunc(id, x) ==
    CASE id = "swirl" ->
             Ok([i \in 1..Len(x) |->
                   IF i % 2 = 1 THEN -x[Len(x) + 1 - i] ELSE x[Len(x) + 1 - i]])

(***************************************************************************)
(* Force layers                                                            *)
(***************************************************************************)
GradientForce(potential_func, field_func, epsilon) ==
    [kind |-> "GradientForce", potential_func |-> potential_func,
     field_func |-> field_func, epsilon |-> epsilon]

InjectionForce(injection_func) ==
    [kind |-> "InjectionForce", injection_func |-> injection_func]

CallbackForce(callback) ==
    [kind |-> "CallbackForce", callback |-> callback]

\* x with component i moved by d (x.copy(); x[i] += d)
Perturbed(x, i, d) == [x EXCEPT ![i] = x[i] + d]

\* central difference, axis by axis; the first potential_func that raises
\* ends the loop.  evals: the points potential_func was called at, in order
RECURSIVE NumericGrad(_, _, _, _, _)
NumericGrad(layer, x, i, grad, evals) ==
    IF i > Len(x) THEN [ok |-> TRUE, val |-> grad, exc |-> "none", evals |-> evals]
    ELSE
    Bind(Perturbed(x, i, layer.epsilon), LAMBDA x_p :
    Bind(Perturbed(x, i, -layer.epsilon), LAMBDA x_m :
    Bind(PotentialFunc(layer.potential_func, x_p), LAMBDA Vp :
    IF ~Vp.ok
    THEN [ok |-> FALSE, val |-> <<>>, exc |-> Vp.exc, evals |-> Append(evals, x_p)]
    ELSE
    Bind(PotentialFunc(layer.potential_func, x_m), LAMBDA Vm :
    IF ~Vm.ok
    THEN [ok |-> FALSE, val |-> <<>>, exc |-> Vm.exc, evals |-> evals \o <<x_p, x_m>>]
    ELSE NumericGrad(layer, x, i + 1,
             [grad EXCEPT ![i] = TruncDiv(Vp.val - Vm.val, 2 * (2 * layer.epsilon))],
             evals \o <<x_p, x_m>>)))))

\* GradientForceCall that takes the central difference even when the layer
\* has a field function, and keeps the field function for the value only
GradientForceCallAlwaysProbing(layer, x, v, t) ==
    Bind(NumericGrad(layer, x, 1, Zeros(Len(x)), <<>>), LAMBDA g :
    [result |-> IF ~IsNone(layer.field_func) THEN FieldFunc(Get(layer.field_func), x)
                ELSE IF g.ok THEN Ok(VScale(-1, g.val)) ELSE Raise(g.exc),
     evals |-> g.evals,
     x |-> x])

\* force(x, v, t) of a GradientForce: the result, the points potential_func
\* was called at, and x as the call leaves it (the loop works on copies)
GradientForceCall(layer, x, v, t) ==
    IF ~IsNone(layer.field_func)
    THEN [result |-> FieldFunc(Get(layer.field_func), x), evals |-> <<>>, x |-> x]
    ELSE
    Bind(NumericGrad(layer, x, 1, Zeros(Len(x)), <<>>), LAMBDA g :
    [result |-> IF g.ok THEN Ok(VScale(-1, g.val)) ELSE Raise(g.exc),
     evals |-> g.evals,
     x |-> x])

GradientForce_force(layer, x, v, t) == GradientForceCall(layer, x, v, t).result

LayerForce(layer, x, v, t) ==
    CASE layer.kind = "GradientForce" -> GradientForce_force(layer, x, v, t)
      [] layer.kind = "InjectionForce" -> InjectionFunc(layer.injection_func, x, v, t)
      [] layer.kind = "CallbackForce" -> CallbackFunc(layer.callback, x)

\* potential(x), doubled
LayerPotential(layer, x) ==
    CASE layer.kind = "GradientForce" -> PotentialFunc(layer.potential_func, x)
      [] layer.kind = "InjectionForce" -> Ok(0)
      [] layer.kind = "CallbackForce" -> Ok(0)

(***************************************************************************)
(* Gauge layers                                                            *)
(***************************************************************************)
CoriolisGauge(omega, axis) ==
    [kind |-> "CoriolisGauge", omega |-> omega, axis |-> axis]

NullGauge == [kind |-> "NullGauge"]

\* CoriolisGauge_rotate with cos and sin taken for each other
CoriolisGauge_rotateSwapped(gauge, v, dt) ==
    LET theta == gauge.omega * dt
        i == gauge.axis[1] + 1
        j == gauge.axis[2] + 1
        c == Sin(theta)
        s == Cos(theta)
    IN  IF i > Len(v) \/ j > Len(v) THEN Raise("IndexError")
        ELSE Ok([[v EXCEPT ![i] = c * v[i] - s * v[j]]
                    EXCEPT ![j] = s * v[i] + c * v[j]])

\* CoriolisGauge_rotate that reads v[i] again after having rotated it
CoriolisGauge_rotateSequential(gauge, v, dt) ==
    LET theta == gauge.omega * dt
        i == gauge.axis[1] + 1
        j == gauge.axis[2] + 1
        c == Cos(theta)
        s == Sin(theta)
    IN  IF i > Len(v) \/ j > Len(v) THEN Raise("IndexError")
        ELSE Ok([[v EXCEPT ![i] = c * v[i] - s * v[j]]
                    EXCEPT ![j] = s * (c * v[i] - s * v[j]) + c * v[j]])

\* axis holds Python (0-based) indices
CoriolisGauge_rotate(gauge, v, dt) ==
    LET theta == gauge.omega * dt
        i == gauge.axis[1] + 1
        j == gauge.axis[2] + 1
        c == Cos(theta)
        s == Sin(theta)
    IN  IF i > Len(v) \/ j > Len(v) THEN Raise("IndexError")
        ELSE Ok([[v EXCEPT ![i] = c * v[i] - s * v[j]]
                    EXCEPT ![j] = s * v[i] + c * v[j]])

Rotate(gauge, v, dt) ==
    CASE gauge.kind = "CoriolisGauge" -> CoriolisGauge_rotate(gauge, v, dt)
      [] gauge.kind = "NullGauge" -> Ok(v)

\* RotateCall writing the rotated components into the array it was given
RotateCallInPlace(gauge, arr, vref, fresh, dt) ==
    CASE gauge.kind = "CoriolisGauge" ->
             Bind(CoriolisGauge_rotate(gauge, arr[vref], dt), LAMBDA r :
             IF r.ok
             THEN [ok |-> TRUE, exc |-> "none",
                   arrays |-> [arr EXCEPT ![vref] = r.val], ref |-> vref]
             ELSE [ok |-> FALSE, exc |-> r.exc, arrays |-> arr, ref |-> vref])
      [] gauge.kind = "NullGauge" ->
             [ok |-> TRUE, exc |-> "none", arrays |-> arr, ref |-> vref]

\* rotate(v, dt) on array objects: vref is the array passed in, fresh the
\* reference v.copy() gets; ref is the array handed back
RotateCall(gauge, arr, vref, fresh, dt) ==
    CASE gauge.kind = "CoriolisGauge" ->
             Bind(CoriolisGauge_rotate(gauge, arr[vref], dt), LAMBDA r :
             IF r.ok
             THEN [ok |-> TRUE, exc |-> "none",
                   arrays |-> [arr EXCEPT ![fresh] = r.val], ref |-> fresh]
             ELSE [ok |-> FALSE, exc |-> r.exc, arrays |-> arr, ref |-> vref])
      [] gauge.kind = "NullGauge" ->
             [ok |-> TRUE, exc |-> "none", arrays |-> arr, ref |-> vref]

(***************************************************************************)
(* Thermo layers                                                           *)
(***************************************************************************)
LangevinThermo(gamma, temperature, mass, noise_sigma_override) ==
    [kind |-> "LangevinThermo", gamma |-> gamma, temperature |-> temperature,
     mass |-> mass, noise_sigma_override |-> noise_sigma_override]

NullThermo == [kind |-> "NullThermo"]

\* a caller's own thermo layer, duck-typed after the Thermo Layer protocol:
\* gamma = 0.0, sigma = 0.0, noise_mode = "off", temperature = None,
\* mass = 1.0, check_fdt() True, and ou_step(v, h, rng) = np.zeros_like(v)
\* (a quench: every call takes the velocity away)
QuenchThermo == [kind |-> "QuenchThermo"]

FdtApplies(th) ==
    /\ ~IsNone(th.temperature)
    /\ Get(th.temperature) > 0
    /\ th.gamma > 0

\* LangevinSigma with the temperature asked before the override
LangevinSigmaFdtFirst(th) ==
    IF FdtApplies(th)
    THEN Isqrt(TruncDiv(2 * th.gamma * Get(th.temperature), th.mass))
    ELSE IF th.noise_sigma_override > 0 THEN th.noise_sigma_override
    ELSE 0

LangevinSigma(th) ==
    IF th.noise_sigma_override > 0 THEN th.noise_sigma_override
    ELSE IF FdtApplies(th)
         THEN Isqrt(TruncDiv(2 * th.gamma * Get(th.temperature), th.mass))
    ELSE 0

LangevinNoiseMode(th) ==
    IF th.noise_sigma_override > 0 THEN "manual"
    ELSE IF FdtApplies(th) THEN "fdt"
    ELSE "off"

ThermoGamma(th) == IF th.kind = "LangevinThermo" THEN th.gamma ELSE 0

ThermoSigma(th) == IF th.kind = "LangevinThermo" THEN LangevinSigma(th) ELSE 0

ThermoNoiseMode(th) == IF th.kind = "LangevinThermo" THEN LangevinNoiseMode(th) ELSE "off"

ThermoTemperature(th) == IF th.kind = "LangevinThermo" THEN th.temperature ELSE None

ThermoMass(th) == IF th.kind = "LangevinThermo" THEN th.mass ELSE 1

\* sigma * sqrt((1 - exp(-2 gamma h)) / (2 gamma)), or sigma * sqrt(h) at
\* gamma = 0; with exp(-2 gamma h) = 1/2^(2 gamma h)
NoiseAmp(sigma, gamma, h) ==
    IF gamma > 0
    THEN Isqrt(TruncDiv(sigma * sigma * (Pow2(2 * gamma * h) - 1),
                        (2 * gamma) * Pow2(2 * gamma * h)))
    ELSE Isqrt(sigma * sigma * h)

\* LangevinThermo_ou_step that draws its samples whatever sigma is
LangevinThermo_ou_stepAlwaysDraws(th, v, h, rng) ==
    LET sigma == LangevinSigma(th)
        gamma == th.gamma
        v_new == IF gamma > 0 THEN MulExpNeg(gamma * h, v) ELSE v
        amp == NoiseAmp(sigma, gamma, h)
        draw == StandardNormal(rng, Len(v))
    IN  [v |-> VAdd(v_new, VScale(amp, draw.val)), rng |-> draw.rng]

\* [v |-> the new velocity, rng |-> the stream after the call]
LangevinThermo_ou_step(th, v, h, rng) ==
    LET sigma == LangevinSigma(th)
        gamma == th.gamma
        v_new == IF gamma > 0 THEN MulExpNeg(gamma * h, v) ELSE v
    IN  IF sigma > 0
        THEN LET amp == NoiseAmp(sigma, gamma, h)
                 draw == StandardNormal(rng, Len(v))
             IN  [v |-> VAdd(v_new, VScale(amp, draw.val)), rng |-> draw.rng]
        ELSE [v |-> v_new, rng |-> rng]

OuStep(th, v, h, rng) ==
    CASE th.kind = "LangevinThermo" -> LangevinThermo_ou_step(th, v, h, rng)
      [] th.kind = "NullThermo" -> [v |-> v, rng |-> rng]
      [] th.kind = "QuenchThermo" -> [v |-> Zeros(Len(v)), rng |-> rng]

(***************************************************************************)
(* PotentialFieldEngine                                                    *)
(***************************************************************************)
EPSILON == 1

DT == 2

\* one recorded call of a layer method: the method, the index of the force
\* layer (0 for the gauge and the thermo layer) and the arguments
Call(op, layer, args) == [op |-> op, layer |-> layer, args |-> args]

\* BuildForceLayers that adds the Classic layers to the given ones
BuildForceLayersBoth(a, epsilon) ==
    (IF ~IsNone(a.force_layers) THEN Get(a.force_layers) ELSE <<>>)
    \o (IF ~IsNone(a.potential_func)
        THEN <<GradientForce(Get(a.potential_func), a.field_func, epsilon)>>
        ELSE <<>>)
    \o (IF ~IsNone(a.injection_func)
        THEN <<InjectionForce(Get(a.injection_func))>>
        ELSE <<>>)
    \o (IF ~IsNone(a.rotational_func) /\ IsNone(a.omega_coriolis)
        THEN <<CallbackForce(Get(a.rotational_func))>>
        ELSE <<>>)

\* _build_layers: a is the record of the constructor's keyword arguments
BuildForceLayers(a, epsilon) ==
    IF ~IsNone(a.force_layers) THEN Get(a.force_layers)
    ELSE (IF ~IsNone(a.potential_func)
          THEN <<GradientForce(Get(a.potential_func), a.field_func, epsilon)>>
          ELSE <<>>)
         \o (IF ~IsNone(a.injection_func)
             THEN <<InjectionForce(Get(a.injection_func))>>
             ELSE <<>>)
         \o (IF ~IsNone(a.rotational_func) /\ IsNone(a.omega_coriolis)
             THEN <<CallbackForce(Get(a.rotational_func))>>
             ELSE <<>>)

BuildGauge(a) ==
    IF ~IsNone(a.gauge_layer) THEN Get(a.gauge_layer)
    ELSE IF ~IsNone(a.omega_coriolis)
         THEN CoriolisGauge(Get(a.omega_coriolis), a.rotation_axis)
    ELSE NullGauge

BuildThermo(a) ==
    IF ~IsNone(a.thermo_layer) THEN Get(a.thermo_layer)
    ELSE LangevinThermo(a.gamma, a.temperature, a.mass, a.noise_sigma)

\* UseStrang that takes a rotation gauge with rate 0 for no gauge
UseStrangIfRotating(gauge) == gauge.kind = "CoriolisGauge" /\ gauge.omega # 0

UseStrang(gauge) == gauge.kind # "NullGauge"

\* __init__
NewEngine(a) ==
    LET epsilon == IF ~IsNone(a.epsilon) THEN Get(a.epsilon) ELSE EPSILON
        gauge == BuildGauge(a)
    IN  [dt |-> IF ~IsNone(a.dt) THEN Get(a.dt) ELSE DT,
         epsilon |-> epsilon,
         rng |-> DefaultRng(a.noise_seed),
         time |-> 0,
         force_layers |-> BuildForceLayers(a, epsilon),
         gauge |-> gauge,
         thermo |-> BuildThermo(a),
         use_strang |-> UseStrang(gauge),
         potential_func |-> a.potential_func,
         field_func |-> a.field_func,
         rotational_func |-> a.rotational_func,
         omega_coriolis |-> a.omega_coriolis,
         rotation_axis |-> a.rotation_axis,
         injection_func |-> a.injection_func,
         noise_sigma_override |-> a.noise_sigma]

\* the properties gamma, noise_sigma, noise_mode, temperature, mass
Gamma(eng) == ThermoGamma(eng.thermo)

NoiseSigma(eng) == ThermoSigma(eng.thermo)

NoiseMode(eng) == ThermoNoiseMode(eng.thermo)

Temperature(eng) == ThermoTemperature(eng.thermo)

Mass(eng) == ThermoMass(eng.thermo)

\* _total_force: [ok, val, exc, log]; log lists the force() calls made
RECURSIVE TotalForceFrom(_, _, _, _, _, _, _)
TotalForceFrom(layers, x, v, t, i, f, log) ==
    IF i > Len(layers) THEN [ok |-> TRUE, val |-> f, exc |-> "none", log |-> log]
    ELSE LET r == LayerForce(layers[i], x, v, t)
             log2 == Append(log, Call("force", i, <<x, v, t>>))
             s == NpAdd(f, r.val)
         IN  IF ~r.ok THEN [ok |-> FALSE, val |-> f, exc |-> r.exc, log |-> log2]
             ELSE IF ~s.ok THEN [ok |-> FALSE, val |-> f, exc |-> s.exc, log |-> log2]
             ELSE TotalForceFrom(layers, x, v, t, i + 1, s.val, log2)

TotalForce(eng, x, v, t) ==
    TotalForceFrom(eng.force_layers, x, v, t, 1, Zeros(Len(x)), <<>>)

\* _total_potential (doubled): [ok, val, exc, log]
RECURSIVE TotalPotentialFrom(_, _, _, _, _)
TotalPotentialFrom(layers, x, i, V2, log) ==
    IF i > Len(layers) THEN [ok |-> TRUE, val |-> V2, exc |-> "none", log |-> log]
    ELSE LET r == LayerPotential(layers[i], x)
             log2 == Append(log, Call("potential", i, <<x>>))
         IN  IF ~r.ok THEN [ok |-> FALSE, val |-> V2, exc |-> r.exc, log |-> log2]
             ELSE TotalPotentialFrom(layers, x, i + 1, V2 + r.val, log2)

\* TotalPotential that leaves the first layer out
TotalPotentialSkipFirst(eng, x) == TotalPotentialFrom(eng.force_layers, x, 2, 0, <<>>)

TotalPotential(eng, x) == TotalPotentialFrom(eng.force_layers, x, 1, 0, <<>>)

\* _injection_power: [ok, val, exc, log]
RECURSIVE InjectionPowerFrom(_, _, _, _, _, _, _)
InjectionPowerFrom(layers, x, v, t, i, power, log) ==
    IF i > Len(layers) THEN [ok |-> TRUE, val |-> power, exc |-> "none", log |-> log]
    ELSE IF layers[i].kind # "InjectionForce"
         THEN InjectionPowerFrom(layers, x, v, t, i + 1, power, log)
    ELSE LET r == LayerForce(layers[i], x, v, t)
             log2 == Append(log, Call("force", i, <<x, v, t>>))
         IN  IF ~r.ok THEN [ok |-> FALSE, val |-> power, exc |-> r.exc, log |-> log2]
             ELSE IF Len(r.val) # Len(v)
                  THEN [ok |-> FALSE, val |-> power, exc |-> "ValueError", log |-> log2]
             ELSE InjectionPowerFrom(layers, x, v, t, i + 1,
                                     power + Dot(v, r.val), log2)

\* InjectionPower that takes v . F over every layer that is not a gradient
InjectionPowerNonGradient(eng, x, v) ==
    Bind(TotalForce([eng EXCEPT !.force_layers =
                        SelectSeq(eng.force_layers,
                                  LAMBDA fl : fl.kind # "GradientForce")],
                    x, v, eng.time), LAMBDA f :
    IF ~f.ok THEN [ok |-> FALSE, val |-> 0, exc |-> f.exc, log |-> f.log]
    ELSE IF Len(f.val) # Len(v)
         THEN [ok |-> FALSE, val |-> 0, exc |-> "ValueError", log |-> f.log]
    ELSE [ok |-> TRUE, val |-> Dot(v, f.val), exc |-> "none", log |-> f.log])

InjectionPower(eng, x, v) ==
    InjectionPowerFrom(eng.force_layers, x, v, eng.time, 1, 0, <<>>)

\* the result of a step that raised: the stream as the step left it
StepRaised(exc, rng, log) ==
    [ok |-> FALSE, exc |-> exc, x |-> <<>>, v |-> <<>>, rng |-> rng, log |-> log]

\* StrangStep with the force evaluated again, at the rotated velocity, for
\* the second half kick
StrangStepRekick(eng, x, v) ==
    Bind(eng.dt, LAMBDA dt :
    Bind(dt \div 2, LAMBDA h :
    Bind(OuStep(eng.thermo, v, h, eng.rng), LAMBDA o1 :
    Bind(<<Call("ou_step", 0, <<v, h>>)>>, LAMBDA log1 :
    Bind(VAdd(x, VScale(h, o1.v)), LAMBDA x_half :
    Bind(eng.time + h, LAMBDA t_mid :
    Bind(TotalForce(eng, x_half, o1.v, t_mid), LAMBDA force :
    Bind(log1 \o force.log, LAMBDA log2 :
    IF ~force.ok THEN StepRaised(force.exc, o1.rng, log2) ELSE
    Bind(VAdd(o1.v, VScale(h, force.val)), LAMBDA v_minus :
    Bind(Rotate(eng.gauge, v_minus, dt), LAMBDA v_rot :
    Bind(Append(log2, Call("rotate", 0, <<v_minus, dt>>)), LAMBDA log3 :
    IF ~v_rot.ok THEN StepRaised(v_rot.exc, o1.rng, log3) ELSE
    Bind(TotalForce(eng, x_half, v_rot.val, t_mid), LAMBDA force2 :
    IF ~force2.ok THEN StepRaised(force2.exc, o1.rng, log3 \o force2.log) ELSE
    Bind(VAdd(v_rot.val, VScale(h, force2.val)), LAMBDA v_new :
    Bind(VAdd(x_half, VScale(h, v_new)), LAMBDA x_new :
    Bind(OuStep(eng.thermo, v_new, h, o1.rng), LAMBDA o2 :
    [ok |-> TRUE, exc |-> "none", x |-> x_new, v |-> o2.v, rng |-> o2.rng,
     log |-> Append(log3 \o force2.log, Call("ou_step", 0, <<v_new, h>>))]
    )))))))))))))))

\* _strang_step: [ok, exc, x, v, rng, log]
StrangStep(eng, x, v) ==
    Bind(eng.dt, LAMBDA dt :
    Bind(dt \div 2, LAMBDA h :
    Bind(OuStep(eng.thermo, v, h, eng.rng), LAMBDA o1 :
    Bind(<<Call("ou_step", 0, <<v, h>>)>>, LAMBDA log1 :
    Bind(VAdd(x, VScale(h, o1.v)), LAMBDA x_half :
    Bind(eng.time + h, LAMBDA t_mid :
    Bind(TotalForce(eng, x_half, o1.v, t_mid), LAMBDA force :
    Bind(log1 \o force.log, LAMBDA log2 :
    IF ~force.ok THEN StepRaised(force.exc, o1.rng, log2) ELSE
    Bind(VAdd(o1.v, VScale(h, force.val)), LAMBDA v_minus :
    Bind(Rotate(eng.gauge, v_minus, dt), LAMBDA v_rot :
    Bind(Append(log2, Call("rotate", 0, <<v_minus, dt>>)), LAMBDA log3 :
    IF ~v_rot.ok THEN StepRaised(v_rot.exc, o1.rng, log3) ELSE
    Bind(VAdd(v_rot.val, VScale(h, force.val)), LAMBDA v_new :
    Bind(VAdd(x_half, VScale(h, v_new)), LAMBDA x_new :
    Bind(OuStep(eng.thermo, v_new, h, o1.rng), LAMBDA o2 :
    [ok |-> TRUE, exc |-> "none", x |-> x_new, v |-> o2.v, rng |-> o2.rng,
     log |-> Append(log3, Call("ou_step", 0, <<v_new, h>>))]
    ))))))))))))))

\* EulerStep with the position moved by the old velocity (explicit Euler)
EulerStepExplicit(eng, x, v) ==
    Bind(eng.dt, LAMBDA dt :
    Bind(TotalForce(eng, x, v, eng.time), LAMBDA a :
    IF ~a.ok THEN StepRaised(a.exc, eng.rng, a.log) ELSE
    Bind(VAdd(v, VScale(dt, a.val)), LAMBDA v_tmp :
    Bind(IF Gamma(eng) > 0 THEN MulExpNeg(Gamma(eng) * dt, v_tmp) ELSE v_tmp,
         LAMBDA v_dec :
    Bind(NoiseSigma(eng), LAMBDA sigma :
    Bind(StandardNormal(eng.rng, Len(v_dec)), LAMBDA draw :
    Bind(IF sigma > 0
         THEN VAdd(v_dec, VScale(NoiseAmp(sigma, Gamma(eng), dt), draw.val))
         ELSE v_dec, LAMBDA v_new :
    [ok |-> TRUE, exc |-> "none", x |-> VAdd(x, VScale(dt, v)), v |-> v_new,
     rng |-> IF sigma > 0 THEN draw.rng ELSE eng.rng, log |-> a.log]
    )))))))

\* _euler_step: [ok, exc, x, v, rng, log]
EulerStep(eng, x, v) ==
    Bind(eng.dt, LAMBDA dt :
    Bind(TotalForce(eng, x, v, eng.time), LAMBDA a :
    IF ~a.ok THEN StepRaised(a.exc, eng.rng, a.log) ELSE
    Bind(VAdd(v, VScale(dt, a.val)), LAMBDA v_tmp :
    Bind(IF Gamma(eng) > 0 THEN MulExpNeg(Gamma(eng) * dt, v_tmp) ELSE v_tmp,
         LAMBDA v_dec :
    Bind(NoiseSigma(eng), LAMBDA sigma :
    Bind(StandardNormal(eng.rng, Len(v_dec)), LAMBDA draw :
    Bind(IF sigma > 0
         THEN VAdd(v_dec, VScale(NoiseAmp(sigma, Gamma(eng), dt), draw.val))
         ELSE v_dec, LAMBDA v_new :
    [ok |-> TRUE, exc |-> "none", x |-> VAdd(x, VScale(dt, v_new)), v |-> v_new,
     rng |-> IF sigma > 0 THEN draw.rng ELSE eng.rng, log |-> a.log]
    )))))))

(***************************************************************************)
(* GlobalState (brain_core, outside this repository) and update.  A state  *)
(* object is a record of its fields; state_vector holds a reference into   *)
(* arrays, the ndarray objects, so that two state objects can share one    *)
(* array.                                                                  *)
(***************************************************************************)
GlobalState(ref, energy2) ==
    [state_vector |-> ref, energy2 |-> energy2, extensions |-> None]

\* state.copy(deep=False): a new object with the same field values; the
\* array is shared with the original
StateCopy(st) == st

\* StoreVector writing into the array the copy shares with the original
\* (new_state.state_vector[:] = vec)
StoreVectorInPlace(arr, new_state, fresh, vec) ==
    [arrays |-> [arr EXCEPT ![new_state.state_vector] = vec],
     state |-> new_state]

\* new_state.state_vector = vec: the field is rebound to a new array object
StoreVector(arr, new_state, fresh, vec) ==
    [arrays |-> [arr EXCEPT ![fresh] = vec],
     state |-> [new_state EXCEPT !.state_vector = fresh]]

\* an array object nothing refers to any more
Dropped(arr, ref) == [arr EXCEPT ![ref] = <<>>]

\* the "potential_field" extension written by update (energies doubled)
PotentialFieldExt(eng, V2, K2, g_new, dissipation_power, injection_power) ==
    [potential2 |-> V2,
     field |-> g_new,
     kinetic_energy2 |-> K2,
     potential_energy2 |-> V2,
     total_energy2 |-> K2 + V2,
     time |-> eng.time,
     gamma |-> Gamma(eng),
     noise_sigma |-> NoiseSigma(eng),
     noise_mode |-> NoiseMode(eng),
     temperature |-> Temperature(eng),
     mass |-> Mass(eng),
     dissipation_power |-> dissipation_power,
     injection_power |-> injection_power,
     n_force_layers |-> Len(eng.force_layers),
     gauge_type |-> eng.gauge.kind,
     thermo_type |-> eng.thermo.kind]

\* what a call of update leaves behind when it raises
UpdateRaised(eng, arr, exc, step, log) ==
    [kind |-> "raised", exc |-> exc, engine |-> eng, arrays |-> arr,
     state |-> None, step |-> step, log |-> log]

\* RejectOdd with the check made only after the clock has moved on
RejectOddLate(eng, arr) ==
    UpdateRaised([eng EXCEPT !.time = eng.time + eng.dt], arr, "ValueError",
                 "none", <<>>)

\* what the length check of update leaves behind: the ValueError is raised
\* before anything else is done
RejectOdd(eng, arr) == UpdateRaised(eng, arr, "ValueError", "none", <<>>)

\* update(state): st is the caller's state object, fresh the reference the
\* next allocated array gets.  The result holds the engine and the arrays
\* after the call, the returned state object (or None when the call raised),
\* the step function used and the layer calls made, in order.
UpdateCall(eng, st, arr, fresh) ==
    Bind(StateCopy(st), LAMBDA new_state :
    Bind(arr[new_state.state_vector], LAMBDA sv :
    Bind(Len(sv), LAMBDA n :
    IF n % 2 # 0 THEN RejectOdd(eng, arr) ELSE
    Bind(n \div 2, LAMBDA dim :
    Bind(SubSeq(sv, 1, dim), LAMBDA x :
    Bind(SubSeq(sv, dim + 1, n), LAMBDA v :
    Bind(IF eng.use_strang THEN "strang" ELSE "euler", LAMBDA stepname :
    Bind(IF eng.use_strang THEN StrangStep(eng, x, v) ELSE EulerStep(eng, x, v),
         LAMBDA step :
    Bind([eng EXCEPT !.rng = step.rng], LAMBDA eng1 :
    IF ~step.ok THEN UpdateRaised(eng1, arr, step.exc, stepname, step.log) ELSE
    Bind([eng1 EXCEPT !.time = eng1.time + eng1.dt], LAMBDA eng2 :
    Bind(TotalPotential(eng2, step.x), LAMBDA V_new :
    Bind(step.log \o V_new.log, LAMBDA log1 :
    IF ~V_new.ok THEN UpdateRaised(eng2, arr, V_new.exc, stepname, log1) ELSE
    Bind(Mass(eng2) * Dot(step.v, step.v), LAMBDA K_new :
    Bind(StoreVector(arr, new_state, fresh, Concat(step.x, step.v)), LAMBDA stored :
    Bind([stored.state EXCEPT !.energy2 = K_new + V_new.val], LAMBDA new_state2 :
    Bind(-Gamma(eng2) * Dot(step.v, step.v), LAMBDA dissipation_power :
    Bind(InjectionPower(eng2, step.x, step.v), LAMBDA inj :
    Bind(log1 \o inj.log, LAMBDA log2 :
    IF ~inj.ok
    THEN UpdateRaised(eng2, Dropped(stored.arrays, fresh), inj.exc, stepname, log2)
    ELSE
    Bind(TotalForce(eng2, step.x, step.v, eng2.time), LAMBDA g_new :
    Bind(log2 \o g_new.log, LAMBDA log3 :
    IF ~g_new.ok
    THEN UpdateRaised(eng2, Dropped(stored.arrays, fresh), g_new.exc, stepname, log3)
    ELSE
    [kind |-> "returned", exc |-> "none", engine |-> eng2,
     arrays |-> stored.arrays,
     state |-> Some([new_state2 EXCEPT !.extensions =
                        Some(PotentialFieldExt(eng2, V_new.val, K_new, g_new.val,
                                               dissipation_power, inj.val))]),
     step |-> stepname, log |-> log3]
    ))))))))))))))))))))

\* ResetEngine that also starts the random stream again
ResetEngineReseed(eng) == [eng EXCEPT !.time = 0, !.rng = DefaultRng(eng.rng.seed)]

\* reset()
ResetEngine(eng) == [eng EXCEPT !.time = 0]

(***************************************************************************)
(* TrunkChecker                                                            *)
(***************************************************************************)
CheckResult(check, pass, detail) ==
    [check |-> check, pass |-> pass, detail |-> detail]

\* check_skew of the gauge layers: both answer True
GaugeCheckSkew(gauge) ==
    CASE gauge.kind = "CoriolisGauge" -> TRUE
      [] gauge.kind = "NullGauge" -> TRUE

CheckSkew(gauge) == CheckResult("skew_symmetry", GaugeCheckSkew(gauge), <<>>)

\* LangevinThermo_check_fdt that exempts only the mode "off"
LangevinThermo_check_fdtManualToo(th) ==
    IF LangevinNoiseMode(th) = "off" THEN TRUE
    ELSE IF ~FdtApplies(th) THEN TRUE
    ELSE Abs(LangevinSigma(th)
             - Isqrt(TruncDiv(2 * th.gamma * Get(th.temperature), th.mass))) < 1

\* LangevinThermo.check_fdt; a difference below 1e-12 is a difference of 0
\* on the grid
LangevinThermo_check_fdt(th) ==
    IF LangevinNoiseMode(th) = "manual" THEN TRUE
    ELSE IF LangevinNoiseMode(th) = "off" THEN TRUE
    ELSE Abs(LangevinSigma(th)
             - Isqrt(TruncDiv(2 * th.gamma * Get(th.temperature), th.mass))) < 1

ThermoCheckFdt(th) ==
    CASE th.kind = "LangevinThermo" -> LangevinThermo_check_fdt(th)
      [] th.kind = "NullThermo" -> TRUE
      [] th.kind = "QuenchThermo" -> TRUE

CheckFdt(th) ==
    CheckResult("fdt_consistency", ThermoCheckFdt(th),
                [mode |-> ThermoNoiseMode(th), sigma |-> ThermoSigma(th),
                 gamma |-> ThermoGamma(th)])

DimError(part, index, what) == [part |-> part, index |-> index, what |-> what]

\* what check_dimensions has found and which layers it has tried so far
DimRun(errors, tried) == [errors |-> errors, tried |-> tried]

\* the entry check_dimensions makes for a layer's answer r = [ok, val, exc]
DimErrors(run, part, index, r, state_dim) ==
    DimRun(IF ~r.ok THEN Append(run.errors, DimError(part, index, r.exc))
           ELSE IF Len(r.val) # state_dim
                THEN Append(run.errors, DimError(part, index, "dim"))
           ELSE run.errors,
           Append(run.tried, <<part, index>>))

\* ForceDimErrors leaving the loop at the first entry made
RECURSIVE ForceDimErrorsFailFast(_, _, _, _)
ForceDimErrorsFailFast(force_layers, state_dim, i, run) ==
    IF i > Len(force_layers) \/ run.errors # <<>> THEN run
    ELSE ForceDimErrorsFailFast(force_layers, state_dim, i + 1,
             DimErrors(run, "force_layer", i - 1,
                       LayerForce(force_layers[i], Zeros(state_dim),
                                  Zeros(state_dim), 0),
                       state_dim))

\* the loop of check_dimensions over the force layers (index as in Python)
RECURSIVE ForceDimErrors(_, _, _, _)
ForceDimErrors(force_layers, state_dim, i, run) ==
    IF i > Len(force_layers) THEN run
    ELSE ForceDimErrors(force_layers, state_dim, i + 1,
             DimErrors(run, "force_layer", i - 1,
                       LayerForce(force_layers[i], Zeros(state_dim),
                                  Zeros(state_dim), 0),
                       state_dim))

\* the body of check_dimensions: the layers are tried on zero vectors, the
\* gauge and the thermostat over the step 0.01 (DT), the thermostat with
\* default_rng(0)
CheckDimensionsRun(state_dim, force_layers, gauge, thermo) ==
    Bind(ForceDimErrors(force_layers, state_dim, 1, DimRun(<<>>, <<>>)), LAMBDA r1 :
    Bind(DimErrors(r1, "gauge_layer", 0, Rotate(gauge, Zeros(state_dim), DT),
                   state_dim), LAMBDA r2 :
    DimErrors(r2, "thermo_layer", 0,
              Ok(OuStep(thermo, Zeros(state_dim), DT, DefaultRng(0)).v),
              state_dim)))

CheckDimensions(state_dim, force_layers, gauge, thermo) ==
    Bind(CheckDimensionsRun(state_dim, force_layers, gauge, thermo), LAMBDA run :
    CheckResult("dimensions", run.errors = <<>>, run.errors))

\* the number of steps of a conservation run (n_steps, 500 in the source)
N_STEPS == 2

\* the private array objects of a conservation run
RunRefs == {"run_a", "run_b"}

\* the engine objects alive during check_conservation: the caller's and
\* the copy
EngineRef == "engine"
CopyRef == "eng_copy"

\* deepcopy that hands back the object it was given
DeepcopyShared(objs, ref) == [objs |-> objs, ref |-> ref]

\* deepcopy(engine): a new object with the same contents, generator and
\* layers included
Deepcopy(objs, ref) ==
    [objs |-> [r \in DOMAIN objs \cup {CopyRef} |->
                  IF r = CopyRef THEN objs[ref] ELSE objs[r]],
     ref |-> CopyRef]

\* ConservationClone that leaves the force layers as they are
ConservationCloneAllLayers(eng) == [eng EXCEPT !.thermo = NullThermo]

\* the two assignments to eng_copy: the thermostat and the force layers
ConservationClone(eng) ==
    [eng EXCEPT !.thermo = NullThermo,
                !.force_layers = SelectSeq(eng.force_layers,
                                           LAMBDA fl : fl.kind = "GradientForce")]

\* the larger of the drift so far and |E - E0| (doubled)
MaxDrift(max_drift2, E2, E0) ==
    IF Abs(E2 - E0) > max_drift2 THEN Abs(E2 - E0) ELSE max_drift2

\* the loop of check_conservation: n more updates of eng_copy from st, with
\* the largest |E - E0| (doubled) so far
RECURSIVE ConservationRun(_, _, _, _, _, _)
ConservationRun(eng_copy, st, arr, n, E0, max_drift2) ==
    IF n = 0 THEN [ok |-> TRUE, exc |-> "none", max_drift2 |-> max_drift2,
                   arrays |-> arr, engine |-> eng_copy]
    ELSE Bind(UpdateCall(eng_copy, st, arr,
                         IF st.state_vector = "run_a" THEN "run_b" ELSE "run_a"),
              LAMBDA out :
              IF out.kind = "raised"
              THEN [ok |-> FALSE, exc |-> out.exc, max_drift2 |-> max_drift2,
                    arrays |-> out.arrays, engine |-> out.engine]
              ELSE ConservationRun(out.engine, Get(out.state), out.arrays, n - 1, E0,
                                   MaxDrift(max_drift2, Get(out.state).energy2, E0)))

\* the arrays of arr with the private ones of a run beside them
WithRunRefs(arr) ==
    [r \in DOMAIN arr \cup RunRefs |-> IF r \in DOMAIN arr THEN arr[r] ELSE <<>>]

\* the relative drift max|E - E0| / |E0| (the absolute one when E0 is 0) is
\* below 0.01
DriftPasses(max_drift2, E0) ==
    IF Abs(E0) > 0 THEN max_drift2 < (Abs(E0) + 99) \div 100
    ELSE max_drift2 < 1

\* check_conservation: [ok, exc, result, arrays, engine], engine being the
\* caller's engine object as the call leaves it
CheckConservation(eng, initial_state, arr, n_steps) ==
    Bind(Deepcopy([r \in {EngineRef} |-> eng], EngineRef), LAMBDA c :
    Bind(StateCopy(initial_state), LAMBDA state :
    Bind(state.energy2, LAMBDA E0 :
    Bind(ConservationRun(ConservationClone(c.objs[c.ref]), state, WithRunRefs(arr),
                         n_steps, E0, 0), LAMBDA run :
    [ok |-> run.ok, exc |-> run.exc,
     result |-> CheckResult("conservation", DriftPasses(run.max_drift2, E0),
                            [max_drift2 |-> run.max_drift2, E0 |-> E0,
                             n |-> n_steps]),
     arrays |-> [r \in DOMAIN arr |-> run.arrays[r]],
     engine |-> [c.objs EXCEPT ![c.ref] = run.engine][EngineRef]]))))

\* RunAll that appends the conservation result before the dimension result
RunAllConservationFirst(eng, initial_state, arr) ==
    Bind(<<CheckSkew(eng.gauge), CheckFdt(eng.thermo)>>, LAMBDA static :
    IF IsNone(initial_state)
    THEN [ok |-> TRUE, exc |-> "none", results |-> static, arrays |-> arr,
          engine |-> eng]
    ELSE
    Bind(Len(arr[Get(initial_state).state_vector]) \div 2, LAMBDA dim :
    Bind(CheckDimensions(dim, eng.force_layers, eng.gauge, eng.thermo), LAMBDA dims :
    Bind(CheckConservation(eng, Get(initial_state), arr, N_STEPS), LAMBDA cons :
    [ok |-> cons.ok, exc |-> cons.exc,
     results |-> IF cons.ok THEN static \o <<cons.result, dims>> ELSE <<>>,
     arrays |-> cons.arrays, engine |-> cons.engine]))))

\* run_all(engine, initial_state): [ok, exc, results, arrays, engine]
RunAll(eng, initial_state, arr) ==
    Bind(<<CheckSkew(eng.gauge), CheckFdt(eng.thermo)>>, LAMBDA static :
    IF IsNone(initial_state)
    THEN [ok |-> TRUE, exc |-> "none", results |-> static, arrays |-> arr,
          engine |-> eng]
    ELSE
    Bind(Len(arr[Get(initial_state).state_vector]) \div 2, LAMBDA dim :
    Bind(CheckDimensions(dim, eng.force_layers, eng.gauge, eng.thermo), LAMBDA dims :
    Bind(CheckConservation(eng, Get(initial_state), arr, N_STEPS), LAMBDA cons :
    [ok |-> cons.ok, exc |-> cons.exc,
     results |-> IF cons.ok THEN static \o <<dims, cons.result>> ELSE <<>>,
     arrays |-> cons.arrays, engine |-> cons.engine]))))

\* check_limits(state)
CheckLimitsCall(eng, state_arg, arr) == RunAll(eng, state_arg, arr)

(***************************************************************************)
(* The bounds of the model and the inputs it draws from                    *)
(***************************************************************************)
\* update and check_limits are called at most MaxCalls times in a run
MaxCalls == 2

\* the caller's state vectors: dim 2, dim 1, and an odd length
InitialVectors == {<<1, 0, 0, 1>>, <<2, -1, 1, 1>>, <<1, 1>>, <<1, 0, 1>>}

DefaultArgs ==
    [potential_func |-> None, field_func |-> None, rotational_func |-> None,
     omega_coriolis |-> None, rotation_axis |-> <<0, 1>>, gamma |-> 0,
     injection_func |-> None, noise_sigma |-> 0, temperature |-> None,
     mass |-> 1, force_layers |-> None, gauge_layer |-> None,
     thermo_layer |-> None, noise_seed |-> 1, dt |-> None, epsilon |-> None]

\* Classic API, the force side: the callbacks and the rotation rate
ForceArgs ==
    {[DefaultArgs EXCEPT !.potential_func = p, !.field_func = f,
                         !.rotational_func = r, !.injection_func = i,
                         !.omega_coriolis = w] :
        p \in {None, Some("hopfield"), Some("flat")},
        f \in {None, Some("restoring")},
        r \in {None, Some("swirl")},
        i \in {None, Some("drive")},
        w \in {None, Some(0), Some(1)}}

\* Classic API, the thermo side, around a well with its analytic field
ThermoArgs ==
    {[DefaultArgs EXCEPT !.potential_func = Some("hopfield"),
                         !.field_func = Some("wells"),
                         !.omega_coriolis = w, !.gamma = g, !.noise_sigma = s,
                         !.temperature = T, !.mass = m, !.noise_seed = seed] :
        w \in {None, Some(1)},
        g \in {0, 1},
        s \in {0, 2},
        T \in {None, Some(2)},
        m \in {1, 2},
        seed \in {1, 2}}

\* Layer API, with Classic parameters given beside the layers
LayerArgs ==
    {[DefaultArgs EXCEPT !.force_layers = Some(<<GradientForce("hopfield", None, EPSILON),
                                                 InjectionForce("drive")>>),
                         !.gauge_layer = gl, !.thermo_layer = tl,
                         !.potential_func = Some("flat"),
                         !.omega_coriolis = w, !.gamma = 1] :
        gl \in {None, Some(NullGauge), Some(CoriolisGauge(1, <<1, 0>>))},
        tl \in {None, Some(NullThermo),
                Some(LangevinThermo(0, None, 2, 2))},
        w \in {None, Some(1)}}

\* Layer API without forces, with a step of its own
StepArgs ==
    {[DefaultArgs EXCEPT !.force_layers = fl, !.gauge_layer = gl,
                         !.thermo_layer = tl, !.potential_func = Some("flat"),
                         !.omega_coriolis = Some(1), !.gamma = 1, !.dt = d] :
        fl \in {None, Some(<<>>)},
        gl \in {None, Some(NullGauge), Some(CoriolisGauge(1, <<1, 0>>))},
        tl \in {None, Some(NullThermo),
                Some(LangevinThermo(0, None, 2, 2))},
        d \in {None, Some(4)}}

\* Classic API with an injection written for two dimensions, whatever the
\* dimension of the state it is used on
MismatchArgs ==
    {[DefaultArgs EXCEPT !.injection_func = Some("planar"), !.omega_coriolis = w] :
        w \in {None, Some(1)}}

ConstructorArgs ==
    ForceArgs \cup ThermoArgs \cup LayerArgs \cup StepArgs \cup MismatchArgs

VARIABLES
    args,      \* the keyword arguments the engine was constructed with
    engine,    \* the PotentialFieldEngine object
    arrays,    \* the ndarray objects, by reference
    state,     \* the caller's GlobalState object
    returned,  \* the state object the last update returned, or None
    outcome,   \* the last operation: how it ended and the layer calls it made
    pre,       \* the engine and the caller's state as the last operation found them
    okCount,   \* updates that returned since construction or the last reset
    calls,     \* calls of update and check_limits so far
    probe,     \* the last call made on a layer object or on TrunkChecker directly
    twin       \* two engines built side by side, with their generator objects

engineVars == <<args, engine, arrays, state, returned, outcome, pre, okCount, calls>>

vars == <<args, engine, arrays, state, returned, outcome, pre, okCount, calls,
          probe, twin>>

\* no layer has been called directly / no second engine has been built
Idle == [op |-> "idle"]

\* the array of the caller's state object, and the array an update allocates
CallerRef == "caller"

FreshRef == "fresh"

Snapshot(eng, st, arr) ==
    [engine |-> eng, state_vector |-> arr[st.state_vector], energy2 |-> st.energy2]

Outcome(op, kind, exc, step, log, results) ==
    [op |-> op, kind |-> kind, exc |-> exc, step |-> step, log |-> log,
     results |-> results]

\* what a call of update leaves: how it ended, the step function and the
\* layer calls made, and the engine, the arrays and the returned state
UpdateOutcome(out) ==
    [op |-> "update", kind |-> out.kind, exc |-> out.exc, step |-> out.step,
     log |-> out.log, results |-> <<>>,
     engine |-> out.engine, arrays |-> out.arrays, state |-> out.state]

\* what a call of check_limits leaves: how it ended, the results, and the
\* engine and the arrays
CheckLimitsOutcome(out, state_arg) ==
    [op |-> "check_limits", kind |-> IF out.ok THEN "returned" ELSE "raised",
     exc |-> out.exc, step |-> "none", log |-> <<>>, results |-> out.results,
     engine |-> out.engine, arrays |-> out.arrays,
     with_state |-> ~IsNone(state_arg)]

Init ==
    /\ args \in ConstructorArgs
    /\ engine = NewEngine(args)
    /\ \E vec \in InitialVectors :
          arrays = [r \in {CallerRef, FreshRef} |-> IF r = CallerRef THEN vec ELSE <<>>]
    /\ state = GlobalState(CallerRef, 0)
    /\ returned = None
    /\ outcome = Outcome("construct", "none", "none", "none", <<>>, <<>>)
    /\ pre = Snapshot(engine, state, arrays)
    /\ okCount = 0
    /\ calls = 0
    /\ probe = Idle
    /\ twin = Idle

\* the caller calls engine.update(state)
Update ==
    /\ calls < MaxCalls
    /\ LET out == UpdateCall(engine, state, Dropped(arrays, FreshRef), FreshRef)
       IN  outcome' = UpdateOutcome(out)
    /\ engine' = outcome'.engine
    /\ arrays' = outcome'.arrays
    /\ returned' = outcome'.state
    /\ okCount' = IF outcome'.kind = "returned" THEN okCount + 1 ELSE okCount
    /\ pre' = Snapshot(engine, state, arrays)
    /\ calls' = calls + 1
    /\ UNCHANGED <<args, state, probe, twin>>

\* the caller goes on with the returned state (state = engine.update(state));
\* the references are renamed so that the caller's array is CallerRef again
Adopt ==
    /\ ~IsNone(returned)
    /\ state' = [Get(returned) EXCEPT !.state_vector = CallerRef]
    /\ arrays' = [r \in {CallerRef, FreshRef} |->
                    IF r = CallerRef THEN arrays[Get(returned).state_vector] ELSE <<>>]
    /\ returned' = None
    /\ outcome' = Outcome("adopt", "none", "none", "none", <<>>, <<>>)
    /\ pre' = Snapshot(engine, state', arrays')
    /\ UNCHANGED <<args, engine, okCount, calls, probe, twin>>

\* the caller builds a new GlobalState
NewState ==
    /\ \E vec \in InitialVectors :
          arrays' = [r \in {CallerRef, FreshRef} |-> IF r = CallerRef THEN vec ELSE <<>>]
    /\ state' = GlobalState(CallerRef, 0)
    /\ returned' = None
    /\ outcome' = Outcome("new_state", "none", "none", "none", <<>>, <<>>)
    /\ pre' = Snapshot(engine, state', arrays')
    /\ UNCHANGED <<args, engine, okCount, calls, probe, twin>>

\* the caller calls engine.reset()
Reset ==
    /\ engine' = ResetEngine(engine)
    /\ outcome' = Outcome("reset", "none", "none", "none", <<>>, <<>>)
    /\ pre' = Snapshot(engine, state, arrays)
    /\ okCount' = 0
    /\ UNCHANGED <<args, arrays, state, returned, calls, probe, twin>>

\* the caller calls engine.check_limits() or engine.check_limits(state)
CheckLimits ==
    /\ calls < MaxCalls
    /\ \E state_arg \in {None, Some(state)} :
          LET out == CheckLimitsCall(engine, state_arg, arrays)
          IN  outcome' = CheckLimitsOutcome(out, state_arg)
    /\ engine' = outcome'.engine
    /\ arrays' = outcome'.arrays
    /\ pre' = Snapshot(engine, state, arrays)
    /\ calls' = calls + 1
    /\ UNCHANGED <<args, state, returned, okCount, probe, twin>>

Next == Update \/ Adopt \/ NewState \/ Reset \/ CheckLimits

Spec == Init /\ [][Next]_vars

(***************************************************************************)
(* The layer objects and TrunkChecker called directly                      *)
(***************************************************************************)
\* the thermostats a caller builds: every branch of sigma and noise_mode
ThermoInputs ==
    {LangevinThermo(g, T, m, s) :
        g \in {0, 1, 2}, T \in {None, Some(-2), Some(0), Some(2)},
        m \in {1, 2}, s \in {-1, 0, 1, 2, 3}}
    \cup {NullThermo}

\* one engine that stays as built while the layers are called
LayerInit ==
    /\ args = DefaultArgs
    /\ engine = NewEngine(args)
    /\ arrays = [r \in {CallerRef, FreshRef} |-> <<>>]
    /\ state = GlobalState(CallerRef, 0)
    /\ returned = None
    /\ outcome = Outcome("construct", "none", "none", "none", <<>>, <<>>)
    /\ pre = Snapshot(engine, state, arrays)
    /\ okCount = 0
    /\ calls = 0
    /\ probe = Idle
    /\ twin = Idle

\* the caller reads thermo.sigma and thermo.noise_mode and calls
\* thermo.check_fdt() and TrunkChecker.check_fdt(thermo)
ProbeThermo ==
    /\ \E th \in ThermoInputs :
          probe' = [op |-> "thermo", thermo |-> th,
                    sigma |-> ThermoSigma(th),
                    noise_mode |-> ThermoNoiseMode(th),
                    check_fdt |-> ThermoCheckFdt(th),
                    report |-> CheckFdt(th)]
    /\ UNCHANGED <<engineVars, twin>>

\* the layers check_dimensions is tried on
ProbeLayers ==
    {GradientForce("hopfield", None, EPSILON),
     GradientForce("flat", Some("restoring"), EPSILON),
     InjectionForce("planar"),
     CallbackForce("swirl")}

ProbeLayerLists ==
    {<<>>} \cup {<<a>> : a \in ProbeLayers}
           \cup {<<a, b>> : a \in ProbeLayers, b \in ProbeLayers}

ProbeGauges == {NullGauge, CoriolisGauge(1, <<0, 1>>), CoriolisGauge(1, <<0, 2>>)}

ProbeThermos == {NullThermo, LangevinThermo(1, Some(2), 1, 0)}

\* TrunkChecker.check_dimensions called directly
ProbeDimensions ==
    /\ \E state_dim \in {1, 2, 3}, force_layers \in ProbeLayerLists,
          gauge \in ProbeGauges, thermo \in ProbeThermos :
          LET run == CheckDimensionsRun(state_dim, force_layers, gauge, thermo)
              out == CheckDimensions(state_dim, force_layers, gauge, thermo)
          IN  probe' = [op |-> "check_dimensions", state_dim |-> state_dim,
                        force_layers |-> force_layers, gauge |-> gauge,
                        thermo |-> thermo,
                        tried |-> run.tried, report |-> out]
    /\ UNCHANGED <<engineVars, twin>>

\* the gauges and velocity vectors rotate is tried on
RotateGauges ==
    {NullGauge} \cup
    {CoriolisGauge(omega, axis) :
        omega \in {0, 1, 2, 3}, axis \in {<<0, 1>>, <<1, 0>>, <<0, 2>>, <<1, 2>>}}

RotateVectors == {<<1, 2, 3>>, <<2, -1, 1>>, <<1, 2>>, <<3, -2, 1, 2>>}

\* gauge.rotate(v, dt) called directly on a caller's array
ProbeRotate ==
    /\ \E gauge \in RotateGauges, v \in RotateVectors, dt \in {DT, 2 * DT} :
          LET arr == [r \in {CallerRef, FreshRef} |-> IF r = CallerRef THEN v ELSE <<>>]
              out == RotateCall(gauge, arr, CallerRef, FreshRef, dt)
          IN  probe' = [op |-> "rotate", gauge |-> gauge, dt |-> dt, input |-> v,
                        ok |-> out.ok, exc |-> out.exc, arrays |-> out.arrays,
                        ref |-> out.ref]
    /\ UNCHANGED <<engineVars, twin>>

\* the gradient layers force is called on, and the points and the other
\* arguments of the calls
ProbeGradients ==
    {GradientForce(p, f, e) :
        p \in {"hopfield", "flat"}, f \in {None, Some("wells"), Some("restoring")},
        e \in {EPSILON, 2 * EPSILON}}

ProbePoints == {<<1, 0>>, <<2, -3>>, <<3>>}

\* the caller calls layer.force(x, v, t) on a gradient layer
ProbeGradient ==
    /\ \E layer \in ProbeGradients, x \in ProbePoints, vt \in {<<0, 0>>, <<1, 2>>} :
          LET out == GradientForceCall(layer, x, [i \in 1..Len(x) |-> vt[1]], vt[2])
          IN  probe' = [op |-> "gradient_force", layer |-> layer, input |-> x,
                        v |-> [i \in 1..Len(x) |-> vt[1]], t |-> vt[2],
                        result |-> out.result, evals |-> out.evals, x |-> out.x]
    /\ UNCHANGED <<engineVars, twin>>

LayerNext == ProbeThermo \/ ProbeDimensions \/ ProbeRotate \/ ProbeGradient

LayerSpec == LayerInit /\ [][LayerNext]_vars

(***************************************************************************)
(* Two engines built side by side and updated in any order.  A generator   *)
(* is an object: gens holds the generator objects alive, and an engine     *)
(* holds the reference of the one __init__ gave it.  The noise seed is an  *)
(* integer; with noise_seed=None numpy seeds from the operating system.    *)
(***************************************************************************)
\* each engine is updated at most MaxTwinSteps times
MaxTwinSteps == 2

\* self._rng = default_rng(noise_seed) keeping the first generator made for
\* every engine built after it
NewGeneratorOnce(gens, owner, seed) ==
    IF DOMAIN gens = {}
    THEN [gens |-> [r \in {owner} |-> DefaultRng(seed)], ref |-> owner]
    ELSE [gens |-> gens, ref |-> CHOOSE r \in DOMAIN gens : TRUE]

\* self._rng = np.random.default_rng(noise_seed): a new generator object
\* for the engine under construction
NewGenerator(gens, owner, seed) ==
    [gens |-> [r \in DOMAIN gens \cup {owner} |->
                  IF r = owner THEN DefaultRng(seed) ELSE gens[r]],
     ref |-> owner]

\* noisy engines, damped or not, Euler or Strang, two seeds, two steps
TwinArgs ==
    {[DefaultArgs EXCEPT !.noise_sigma = 2, !.gamma = g, !.omega_coriolis = w,
                         !.noise_seed = sd, !.dt = d] :
        g \in {0, 1}, w \in {None, Some(1)}, sd \in {1, 2}, d \in {None, Some(4)}}

TwinVectors == {<<1, 0, 0, 1>>, <<2, -1, 1, 1>>}

\* what one update leaves behind: the state handed back, the elapsed time
\* and the generator after the call
TwinEntry(out) ==
    [kind |-> out.kind,
     state_vector |-> IF out.kind = "returned"
                      THEN out.arrays[Get(out.state).state_vector] ELSE <<>>,
     energy2 |-> IF out.kind = "returned" THEN Get(out.state).energy2 ELSE 0,
     time |-> out.engine.time,
     rng |-> out.engine.rng]

\* an engine, the reference of its generator, the caller's current state
\* and arrays, and the entries of its updates so far
TwinSide(a, vec, ref) ==
    [args |-> a, vec |-> vec, engine |-> NewEngine(a), rng |-> ref,
     state |-> GlobalState(CallerRef, 0),
     arrays |-> [r \in {CallerRef, FreshRef} |-> IF r = CallerRef THEN vec ELSE <<>>],
     hist |-> <<>>]

\* engine.update(state) on one side, the caller going on with the state
\* it is handed back: the side and the generator objects after the call
TwinUpdateSide(side, gens) ==
    Bind(UpdateCall([side.engine EXCEPT !.rng = gens[side.rng]], side.state,
                    side.arrays,
                    IF side.state.state_vector = CallerRef THEN FreshRef ELSE CallerRef),
         LAMBDA out :
         [side |-> [side EXCEPT !.engine = out.engine,
                                !.arrays = out.arrays,
                                !.state = IF out.kind = "returned"
                                          THEN Get(out.state) ELSE @,
                                !.hist = Append(@, TwinEntry(out))],
          gens |-> [gens EXCEPT ![side.rng] = out.engine.rng]])

TwinInit ==
    /\ args = DefaultArgs
    /\ engine = NewEngine(args)
    /\ arrays = [r \in {CallerRef, FreshRef} |-> <<>>]
    /\ state = GlobalState(CallerRef, 0)
    /\ returned = None
    /\ outcome = Outcome("construct", "none", "none", "none", <<>>, <<>>)
    /\ pre = Snapshot(engine, state, arrays)
    /\ okCount = 0
    /\ calls = 0
    /\ probe = Idle
    /\ \E a \in TwinArgs, b \in TwinArgs, va \in TwinVectors, vb \in TwinVectors :
          LET ga == NewGenerator(<<>>, "rng_a", a.noise_seed)
              gb == NewGenerator(ga.gens, "rng_b", b.noise_seed)
          IN  twin = [op |-> "built", gens |-> gb.gens,
                      a |-> TwinSide(a, va, ga.ref), b |-> TwinSide(b, vb, gb.ref)]

UpdateA ==
    /\ twin.op # "idle"
    /\ Len(twin.a.hist) < MaxTwinSteps
    /\ LET out == TwinUpdateSide(twin.a, twin.gens)
       IN  twin' = [twin EXCEPT !.op = "update_a", !.a = out.side, !.gens = out.gens]
    /\ UNCHANGED <<engineVars, probe>>

UpdateB ==
    /\ twin.op # "idle"
    /\ Len(twin.b.hist) < MaxTwinSteps
    /\ LET out == TwinUpdateSide(twin.b, twin.gens)
       IN  twin' = [twin EXCEPT !.op = "update_b", !.b = out.side, !.gens = out.gens]
    /\ UNCHANGED <<engineVars, probe>>

TwinNext == UpdateA \/ UpdateB

TwinSpec == TwinInit /\ [][TwinNext]_vars

(***************************************************************************)
(* Engines built from every mix of Classic and Layer arguments, updated    *)
(* and asked for their introspection record                                *)
(***************************************************************************)
\* the Classic thermo parameters, taken together: the defaults, or all set
BuildThermoParams ==
    {[gamma |-> 0, temperature |-> None, mass |-> 1, noise_sigma |-> 0],
     [gamma |-> 1, temperature |-> Some(2), mass |-> 2, noise_sigma |-> 2]}

BuildArgs ==
    {[DefaultArgs EXCEPT !.potential_func = p, !.field_func = f,
                         !.rotational_func = r, !.injection_func = i,
                         !.omega_coriolis = w, !.force_layers = fl,
                         !.gauge_layer = gl, !.thermo_layer = tl,
                         !.gamma = th.gamma, !.temperature = th.temperature,
                         !.mass = th.mass, !.noise_sigma = th.noise_sigma] :
        p \in {None, Some("flat")},
        f \in {None, Some("restoring")},
        r \in {None, Some("swirl")},
        i \in {None, Some("drive")},
        w \in {None, Some(0), Some(1)},
        fl \in {None, Some(<<>>),
                Some(<<InjectionForce("drive"), CallbackForce("swirl")>>)},
        gl \in {None, Some(NullGauge), Some(CoriolisGauge(2, <<1, 0>>))},
        tl \in {None, Some(NullThermo), Some(LangevinThermo(2, None, 2, 0)),
                Some(QuenchThermo)},
        th \in BuildThermoParams}

\* get_state()
GetState(eng) ==
    [name |-> "potential_field",
     dt |-> eng.dt,
     epsilon |-> eng.epsilon,
     omega_coriolis |-> eng.omega_coriolis,
     gamma |-> Gamma(eng),
     noise_sigma |-> NoiseSigma(eng),
     noise_mode |-> NoiseMode(eng),
     temperature |-> Temperature(eng),
     mass |-> Mass(eng),
     has_injection |-> ~IsNone(eng.injection_func),
     time |-> eng.time,
     n_force_layers |-> Len(eng.force_layers),
     gauge_type |-> eng.gauge.kind,
     thermo_type |-> eng.thermo.kind]

BuildInit ==
    /\ args \in BuildArgs
    /\ engine = NewEngine(args)
    /\ arrays = [r \in {CallerRef, FreshRef} |->
                    IF r = CallerRef THEN <<1, 0, 0, 1>> ELSE <<>>]
    /\ state = GlobalState(CallerRef, 0)
    /\ returned = None
    /\ outcome = Outcome("construct", "none", "none", "none", <<>>, <<>>)
    /\ pre = Snapshot(engine, state, arrays)
    /\ okCount = 0
    /\ calls = 0
    /\ probe = Idle
    /\ twin = Idle

\* the caller calls engine.get_state()
CallGetState ==
    /\ probe' = [op |-> "get_state", record |-> GetState(engine)]
    /\ outcome' = Outcome("get_state", "returned", "none", "none", <<>>, <<>>)
    /\ pre' = Snapshot(engine, state, arrays)
    /\ UNCHANGED <<args, engine, arrays, state, returned, okCount, calls, twin>>

BuildNext == Update \/ CallGetState

BuildSpec == BuildInit /\ [][BuildNext]_vars

(***************************************************************************)
(* Properties                                                              *)
(***************************************************************************)
\* the last operation was a call of update
Updated == outcome.op = "update"

UpdateReturned == Updated /\ outcome.kind = "returned"

UpdateRaisedNow == Updated /\ outcome.kind = "raised"

\* the halves of the vector the last operation was given
PreDim == Len(pre.state_vector) \div 2

PreX == SubSeq(pre.state_vector, 1, PreDim)

PreV == SubSeq(pre.state_vector, PreDim + 1, Len(pre.state_vector))

\* the vector of the returned state and its halves
RetVec == arrays[Get(returned).state_vector]

RetX == SubSeq(RetVec, 1, Len(RetVec) \div 2)

RetV == SubSeq(RetVec, Len(RetVec) \div 2 + 1, Len(RetVec))

\* the caller's state is as the last operation found it
CallerStateKept ==
    /\ arrays[state.state_vector] = pre.state_vector
    /\ state.energy2 = pre.energy2

\* C1: update on a state whose state_vector has odd length raises ValueError
\* before any layer is invoked; the elapsed time and the RNG stream are as
\* before the call and the vector is neither truncated nor padded.
C1_OddLengthRejected ==
    (Updated /\ Len(pre.state_vector) % 2 = 1) =>
        /\ outcome.kind = "raised"
        /\ outcome.exc = "ValueError"
        /\ outcome.log = <<>>
        /\ returned = None
        /\ engine.time = pre.engine.time
        /\ engine.rng = pre.engine.rng
        /\ CallerStateKept

\* an odd-length call on an engine that has already advanced, with noise and
\* force layers that a step would have used
C1_Witness ==
    /\ Updated
    /\ Len(pre.state_vector) = 3
    /\ outcome.exc = "ValueError"
    /\ pre.engine.time > 0
    /\ pre.engine.rng.pos > 0
    /\ Len(engine.force_layers) > 0

\* C2: whenever update raises, the elapsed time, the RNG stream and the
\* caller's state are exactly as they were before the call.
C2_AtomicOnFailure ==
    UpdateRaisedNow =>
        /\ engine.time = pre.engine.time
        /\ engine.rng = pre.engine.rng
        /\ CallerStateKept

\* C3: a successful update leaves the argument's state_vector and energy as
\* they were, and the returned state carries its vector in another array.
C3_ArgumentNotMutated ==
    UpdateReturned =>
        /\ CallerStateKept
        /\ Get(returned).state_vector # state.state_vector

\* a second successful Strang call, whose result differs from its argument
C3_Witness ==
    /\ UpdateReturned
    /\ outcome.step = "strang"
    /\ okCount >= 2
    /\ RetVec # pre.state_vector
    /\ Get(returned).energy2 # state.energy2

\* C4: every successful update increases the elapsed time by exactly dt, so
\* after k successful updates since construction or the last reset the
\* elapsed time is k * dt; the time never decreases over an update, and the
\* "time" of the returned extension is the engine's time after the step.
C4_TimeIsSuccessesTimesDt ==
    /\ UpdateReturned =>
          /\ engine.time = pre.engine.time + engine.dt
          /\ Get(Get(returned).extensions).time = engine.time
    /\ Updated => engine.time >= pre.engine.time
    /\ engine.time = okCount * engine.dt

\* C5: reset sets the elapsed time to 0 and changes nothing else.
C5_ResetOnlyZeroesTime ==
    outcome.op = "reset" =>
        /\ engine.time = 0
        /\ engine.rng = pre.engine.rng
        /\ engine.force_layers = pre.engine.force_layers
        /\ engine.gauge = pre.engine.gauge
        /\ engine.thermo = pre.engine.thermo
        /\ engine.dt = pre.engine.dt
        /\ engine.epsilon = pre.engine.epsilon
        /\ engine.use_strang = pre.engine.use_strang
        /\ engine = [pre.engine EXCEPT !.time = 0]

\* a reset after advances that moved the clock and the stream
C5_Witness ==
    /\ outcome.op = "reset"
    /\ pre.engine.time > 0
    /\ engine.rng.pos > 0
    /\ Len(engine.force_layers) > 0

\* the constructor was given no gauge: gauge_layer is a NullGauge, or there
\* is neither a gauge_layer nor an omega_coriolis
ConfiguredNullGauge ==
    \/ args.gauge_layer = Some(NullGauge)
    \/ (IsNone(args.gauge_layer) /\ IsNone(args.omega_coriolis))

\* C6: the mode is fixed at construction, Strang exactly when the configured
\* gauge is not the null gauge; update, reset and check_limits leave it as it
\* is, and every update uses the step of that mode.
C6_ModeFixedAtConstruction ==
    /\ engine.use_strang \in BOOLEAN
    /\ engine.use_strang = ~ConfiguredNullGauge
    /\ engine.use_strang = pre.engine.use_strang
    /\ (Updated /\ Len(pre.state_vector) % 2 = 0) =>
          outcome.step = IF ConfiguredNullGauge THEN "euler" ELSE "strang"

\* a check_limits with a state, on a Strang engine built with rotation rate
\* 0 that has advanced since its last reset
C6_Witness ==
    /\ outcome.op = "check_limits"
    /\ Len(outcome.results) = 4
    /\ engine.use_strang
    /\ args.omega_coriolis = Some(0)
    /\ IsNone(args.gauge_layer)
    /\ okCount >= 1
    /\ engine.time > 0

\* the engine, the time, the step sizes and the number of force layers of
\* the last operation
PreEng == pre.engine

PreT == pre.engine.time

PreDt == pre.engine.dt

PreH == pre.engine.dt \div 2

NLayers == Len(pre.engine.force_layers)

\* the sub-steps of a Strang step from (PreX, PreV, PreT), one by one
Ref_o1 == OuStep(PreEng.thermo, PreV, PreH, PreEng.rng)

Ref_x_half == VAdd(PreX, VScale(PreH, Ref_o1.v))

Ref_F == TotalForce(PreEng, Ref_x_half, Ref_o1.v, PreT + PreH).val

Ref_v_minus == VAdd(Ref_o1.v, VScale(PreH, Ref_F))

Ref_v_rot == Rotate(PreEng.gauge, Ref_v_minus, PreDt).val

Ref_v_new == VAdd(Ref_v_rot, VScale(PreH, Ref_F))

Ref_x_new == VAdd(Ref_x_half, VScale(PreH, Ref_v_new))

Ref_o2 == OuStep(PreEng.thermo, Ref_v_new, PreH, Ref_o1.rng)

\* C7: a Strang step is, in this order and with h = dt/2: ou_step over h,
\* half drift, one evaluation of every force layer at (x_half, v, t + h),
\* half kick, rotation over the full dt, half kick with the same force,
\* half drift, ou_step over h.
C7_StrangOrder ==
    (UpdateReturned /\ outcome.step = "strang") =>
        /\ Len(outcome.log) >= NLayers + 3
        /\ outcome.log[1] = Call("ou_step", 0, <<PreV, PreH>>)
        /\ \A i \in 1..NLayers :
              outcome.log[1 + i] =
                  Call("force", i, <<Ref_x_half, Ref_o1.v, PreT + PreH>>)
        /\ outcome.log[NLayers + 2] = Call("rotate", 0, <<Ref_v_minus, PreDt>>)
        /\ outcome.log[NLayers + 3] = Call("ou_step", 0, <<Ref_v_new, PreH>>)
        /\ \A k \in (NLayers + 4)..Len(outcome.log) :
              outcome.log[k].op \in {"potential", "force"}
        /\ \A k \in (NLayers + 4)..Len(outcome.log) :
              outcome.log[k].op = "force" => outcome.log[k].args[3] = PreT + PreDt
        /\ RetX = Ref_x_new
        /\ RetV = Ref_o2.v
        /\ engine.rng = Ref_o2.rng

\* a Strang step with noise, damping, a quarter-turn rotation and two force
\* layers, on an engine that has advanced before
C7_Witness ==
    /\ UpdateReturned
    /\ outcome.step = "strang"
    /\ NLayers >= 2
    /\ PreT > 0
    /\ Sin(PreEng.gauge.omega * PreDt) # 0
    /\ Ref_F # Zeros(PreDim)
    /\ Ref_v_rot # Ref_v_minus

\* the sub-steps of an Euler step from (PreX, PreV, PreT)
Eul_gamma == ThermoGamma(PreEng.thermo)

Eul_sigma == ThermoSigma(PreEng.thermo)

Eul_a == TotalForce(PreEng, PreX, PreV, PreT).val

Eul_v_tmp == VAdd(PreV, VScale(PreDt, Eul_a))

Eul_decayed ==
    IF Eul_gamma > 0 THEN MulExpNeg(Eul_gamma * PreDt, Eul_v_tmp) ELSE Eul_v_tmp

Eul_noise ==
    VScale(NoiseAmp(Eul_sigma, Eul_gamma, PreDt),
           [i \in 1..PreDim |-> Xi(PreEng.rng.seed, PreEng.rng.pos + i)])

Eul_v_new == IF Eul_sigma > 0 THEN VAdd(Eul_decayed, Eul_noise) ELSE Eul_decayed

\* C8: an Euler step computes a at the pre-step (x, v, t), v_tmp = v + dt a,
\* v_new = decay v_tmp with decay = exp(-gamma dt) if gamma > 0 else 1, adds
\* one noise draw iff sigma > 0, and x_new = x + dt v_new.
C8_EulerStep ==
    (UpdateReturned /\ outcome.step = "euler") =>
        /\ \A i \in 1..NLayers :
              outcome.log[i] = Call("force", i, <<PreX, PreV, PreT>>)
        /\ RetV = Eul_v_new
        /\ RetX = VAdd(PreX, VScale(PreDt, RetV))
        /\ engine.rng.seed = PreEng.rng.seed
        /\ engine.rng.pos = PreEng.rng.pos + (IF Eul_sigma > 0 THEN PreDim ELSE 0)

\* an Euler step with a force, damping and noise whose new velocity differs
\* from the old one
C8_Witness ==
    /\ UpdateReturned
    /\ outcome.step = "euler"
    /\ Eul_gamma > 0
    /\ Eul_sigma > 0
    /\ Eul_a # Zeros(PreDim)
    /\ Eul_decayed # Eul_v_tmp
    /\ Eul_noise # Zeros(PreDim)
    /\ RetV # PreV
    /\ PreT > 0

\* the classical Strang (drift-kick-drift) step without thermostat or gauge
Cls_x_half == VAdd(PreX, VScale(PreH, PreV))

Cls_F == TotalForce(PreEng, Cls_x_half, PreV, PreT + PreH).val

Cls_v_new == VAdd(PreV, VScale(PreDt, Cls_F))

Cls_x_new == VAdd(Cls_x_half, VScale(PreH, Cls_v_new))

\* the gauge of the last operation rotates by a whole number of turns
IdentityRotation ==
    /\ PreEng.gauge.kind = "CoriolisGauge"
    /\ (PreEng.gauge.omega * PreDt) % 8 = 0

\* C9: with gamma = 0, sigma = 0 and a gauge whose rotation is the identity,
\* a Strang step gives the (x_new, v_new) of the classical Strang step.
C9_StrangReducesToClassical ==
    (/\ UpdateReturned
     /\ outcome.step = "strang"
     /\ ThermoGamma(PreEng.thermo) = 0
     /\ ThermoSigma(PreEng.thermo) = 0
     /\ IdentityRotation) =>
        /\ RetX = Cls_x_new
        /\ RetV = Cls_v_new

\* such a step, the second in a row, with a force that is not zero
C9_Witness ==
    /\ UpdateReturned
    /\ outcome.step = "strang"
    /\ ThermoGamma(PreEng.thermo) = 0
    /\ ThermoSigma(PreEng.thermo) = 0
    /\ IdentityRotation
    /\ okCount >= 2
    /\ Cls_F # Zeros(PreDim)
    /\ PreV[1] # PreV[2]

\* the sum of the potentials (doubled) of the gradient layers at x; the
\* other layers have none
RECURSIVE GradientPotentialSum(_, _, _)
GradientPotentialSum(layers, x, i) ==
    IF i > Len(layers) THEN 0
    ELSE (IF layers[i].kind = "GradientForce"
          THEN PotentialFunc(layers[i].potential_func, x).val
          ELSE 0)
         + GradientPotentialSum(layers, x, i + 1)

\* the "potential_field" extension of the returned state
RetExt == Get(Get(returned).extensions)

\* C10: after a successful update the returned energy is K + V, with
\* K = (1/2) m |v_new|^2 and V the sum of potential(x_new) over the force
\* layers (0 for injection and callback layers), and the extension agrees:
\* total_energy is the energy, kinetic + potential is total, potential is
\* potential_energy.  (All energies doubled.)
C10_EnergyIsKPlusV ==
    UpdateReturned =>
        /\ Get(returned).energy2 =
              Mass(engine) * Dot(RetV, RetV)
              + GradientPotentialSum(engine.force_layers, RetX, 1)
        /\ RetExt.total_energy2 = Get(returned).energy2
        /\ RetExt.kinetic_energy2 + RetExt.potential_energy2 = RetExt.total_energy2
        /\ RetExt.potential2 = RetExt.potential_energy2
        /\ RetExt.kinetic_energy2 = Mass(engine) * Dot(RetV, RetV)

\* a returned state with a gradient layer and an injection layer, mass 2,
\* and neither K nor V zero
C10_Witness ==
    /\ UpdateReturned
    /\ \E i \in 1..Len(engine.force_layers) :
          engine.force_layers[i].kind = "GradientForce"
    /\ \E i \in 1..Len(engine.force_layers) :
          engine.force_layers[i].kind = "InjectionForce"
    /\ Mass(engine) = 2
    /\ RetExt.kinetic_energy2 > 0
    /\ RetExt.potential_energy2 > 0

\* the last direct call read a LangevinThermo
ProbedLangevin == probe.op = "thermo" /\ probe.thermo.kind = "LangevinThermo"

\* T > 0 and gamma > 0 for the thermostat read last
ProbedFdtCase ==
    /\ ~IsNone(probe.thermo.temperature)
    /\ Get(probe.thermo.temperature) > 0
    /\ probe.thermo.gamma > 0

\* sqrt(2 gamma T / m) for the thermostat read last
ProbedFdtSigma ==
    Isqrt(TruncDiv(2 * probe.thermo.gamma * Get(probe.thermo.temperature),
                   probe.thermo.mass))

\* C11: sigma and the mode are resolved in this order: an override > 0 gives
\* sigma = override and "manual" whatever T and gamma are; else T > 0 and
\* gamma > 0 give sigma = sqrt(2 gamma T / m) and "fdt"; else sigma = 0 and
\* "off".  So, for m > 0, sigma > 0 exactly when the mode is not "off".
C11_SigmaResolutionOrder ==
    ProbedLangevin =>
        /\ probe.thermo.noise_sigma_override > 0 =>
              /\ probe.sigma = probe.thermo.noise_sigma_override
              /\ probe.noise_mode = "manual"
        /\ (probe.thermo.noise_sigma_override <= 0 /\ ProbedFdtCase) =>
              /\ probe.sigma = ProbedFdtSigma
              /\ probe.noise_mode = "fdt"
        /\ (probe.thermo.noise_sigma_override <= 0 /\ ~ProbedFdtCase) =>
              /\ probe.sigma = 0
              /\ probe.noise_mode = "off"
        /\ probe.thermo.mass > 0 => (probe.sigma > 0 <=> probe.noise_mode # "off")

\* an override beside a temperature and a damping that would give another
\* sigma: the override wins
C11_Witness ==
    /\ ProbedLangevin
    /\ probe.thermo.noise_sigma_override > 0
    /\ ProbedFdtCase
    /\ ProbedFdtSigma # probe.thermo.noise_sigma_override
    /\ probe.noise_mode = "manual"

\* C12: check_fdt is true whenever the mode is "manual" or "off", whatever
\* sigma, gamma, T and m are, and the null thermostat's check_fdt is always
\* true.
C12_CheckFdtTrueOutsideFdtMode ==
    (/\ probe.op = "thermo"
     /\ \/ probe.thermo.kind = "NullThermo"
        \/ probe.noise_mode \in {"manual", "off"}) =>
        /\ probe.check_fdt = TRUE
        /\ probe.report.pass = TRUE

\* a manual sigma that differs from sqrt(2 gamma T / m), both being defined
C12_Witness ==
    /\ ProbedLangevin
    /\ probe.noise_mode = "manual"
    /\ ProbedFdtCase
    /\ probe.sigma # ProbedFdtSigma
    /\ probe.check_fdt = TRUE

ProbedDim == probe.state_dim

ForceMismatch(i) ==
    LET r == LayerForce(probe.force_layers[i], Zeros(ProbedDim), Zeros(ProbedDim), 0)
    IN  ~r.ok \/ Len(r.val) # ProbedDim

GaugeMismatch ==
    LET r == Rotate(probe.gauge, Zeros(ProbedDim), DT)
    IN  ~r.ok \/ Len(r.val) # ProbedDim

ThermoMismatch ==
    Len(OuStep(probe.thermo, Zeros(ProbedDim), DT, DefaultRng(0)).v) # ProbedDim

Mismatching ==
    {<<"force_layer", i - 1>> : i \in {k \in 1..Len(probe.force_layers) : ForceMismatch(k)}}
    \cup (IF GaugeMismatch THEN {<<"gauge_layer", 0>>} ELSE {})
    \cup (IF ThermoMismatch THEN {<<"thermo_layer", 0>>} ELSE {})

NamedInDetail ==
    {<<probe.report.detail[k].part, probe.report.detail[k].index>> :
        k \in 1..Len(probe.report.detail)}

\* C14: check_dimensions tries every force layer, the gauge and the
\* thermostat once each on a zero state of the declared dimension; it passes
\* exactly when no layer mismatches; its detail names every mismatching
\* layer, each once, not only the first; a layer that raises is recorded
\* with its error instead of ending the check, which always comes back with
\* a "dimensions" result.
C14_AllMismatchesReported ==
    probe.op = "check_dimensions" =>
        /\ probe.report.check = "dimensions"
        /\ probe.report.pass = (Mismatching = {})
        /\ NamedInDetail = Mismatching
        /\ Len(probe.report.detail) = Cardinality(Mismatching)
        /\ probe.tried =
              [k \in 1..(Len(probe.force_layers) + 2) |->
                  IF k <= Len(probe.force_layers) THEN <<"force_layer", k - 1>>
                  ELSE IF k = Len(probe.force_layers) + 1 THEN <<"gauge_layer", 0>>
                  ELSE <<"thermo_layer", 0>>]
        /\ \A i \in 1..Len(probe.force_layers) :
              LET r == LayerForce(probe.force_layers[i], Zeros(ProbedDim),
                                  Zeros(ProbedDim), 0)
              IN  ~r.ok =>
                     \E k \in 1..Len(probe.report.detail) :
                         probe.report.detail[k] = DimError("force_layer", i - 1, r.exc)

\* a raising force layer, a force layer of the wrong size and a raising
\* gauge are all named by one report
C14_Witness ==
    /\ probe.op = "check_dimensions"
    /\ probe.report.pass = FALSE
    /\ Len(probe.report.detail) = 3
    /\ probe.report.detail[1] = DimError("force_layer", 0, "ValueError")
    /\ probe.report.detail[2] = DimError("force_layer", 1, "dim")
    /\ probe.report.detail[3] = DimError("gauge_layer", 0, "IndexError")

\* check_limits was the last call; with a state it ran the conservation check
CheckedLimits == outcome.op = "check_limits"

CheckedConservation ==
    /\ CheckedLimits
    /\ outcome.kind = "returned"
    /\ Len(outcome.results) = 4

NonGradientLayers(eng) ==
    {k \in 1..Len(eng.force_layers) : eng.force_layers[k].kind # "GradientForce"}

\* C15: check_conservation (through check_limits) leaves the engine it was
\* given as it was (elapsed time, generator position, thermostat, list of
\* force layers, gauge) and the initial state as it was (state_vector,
\* energy), whether the run of N_STEPS steps ends or raises.
C15_ConservationLeavesEngineAndState ==
    CheckedLimits =>
        /\ engine = pre.engine
        /\ CallerStateKept

\* a finished conservation run on an engine that has a thermostat, a layer
\* that is not a gradient and elapsed time behind it
C15_Witness ==
    /\ CheckedConservation
    /\ outcome.results[4].detail.n = N_STEPS
    /\ engine.thermo.kind = "LangevinThermo"
    /\ NonGradientLayers(engine) # {}
    /\ engine.time > 0
    /\ engine.rng.pos > 0

\* the clone the conservation check is to advance, and the energies
\* (doubled) the clone's updates give from the caller's state
Cons_clone ==
    [pre.engine EXCEPT
        !.thermo = NullThermo,
        !.force_layers = SelectSeq(pre.engine.force_layers,
                             LAMBDA fl : fl.kind \notin {"InjectionForce", "CallbackForce"})]

Cons_arrays ==
    [r \in DOMAIN arrays \cup RunRefs |->
        IF r = state.state_vector THEN pre.state_vector ELSE <<>>]

RECURSIVE Cons_energies(_, _, _, _)
Cons_energies(eng, st, arr, n) ==
    IF n = 0 THEN <<>>
    ELSE Bind(UpdateCall(eng, st, arr,
                         IF st.state_vector = "run_a" THEN "run_b" ELSE "run_a"),
              LAMBDA out :
              IF out.kind = "raised" THEN <<>>
              ELSE <<Get(out.state).energy2>>
                   \o Cons_energies(out.engine, Get(out.state), out.arrays, n - 1))

Cons_drifts(E0) ==
    LET es == Cons_energies(Cons_clone, state, Cons_arrays, N_STEPS)
    IN  [k \in 1..Len(es) |-> Abs(es[k] - E0)]

\* C16: check_conservation advances a clone with the null thermostat and
\* only the gradient layers N_STEPS times from the initial state and passes
\* exactly when max |E_t - E_0| / |E_0| < 0.01, E_0 being the energy of the
\* initial state; when E_0 is 0 the absolute drift is compared with 0.01
\* instead and nothing is divided.
C16_ConservationVerdict ==
    CheckedConservation =>
        LET r == outcome.results[4]
            E0 == pre.energy2
            ds == Cons_drifts(E0)
        IN  /\ r.check = "conservation"
            /\ r.detail.n = N_STEPS
            /\ Len(ds) = N_STEPS
            /\ \A k \in 1..Len(ds) : ds[k] <= r.detail.max_drift2
            /\ r.detail.max_drift2 = 0 \/ \E k \in 1..Len(ds) : ds[k] = r.detail.max_drift2
            /\ r.pass = (IF E0 # 0 THEN r.detail.max_drift2 <= (Abs(E0) - 1) \div 100
                         ELSE r.detail.max_drift2 = 0)

\* a passing run from a state with energy on an engine whose injection
\* layer the clone leaves out
C16_Witness ==
    /\ CheckedConservation
    /\ pre.energy2 # 0
    /\ NonGradientLayers(pre.engine) # {}
    /\ outcome.results[4].pass = TRUE

\* a run from a state of energy 0 is judged by its absolute drift
C16_ZeroEnergyWitness ==
    /\ CheckedConservation
    /\ pre.energy2 = 0
    /\ outcome.results[4].detail.max_drift2 > 0
    /\ outcome.results[4].pass = FALSE

\* the probed rotate call and what it handed back
Rotated == probe.op = "rotate" /\ probe.ok

RotAxisI == probe.gauge.axis[1] + 1

RotAxisJ == probe.gauge.axis[2] + 1

RotOut == probe.arrays[probe.ref]

\* C19: rotate(v, dt) of a rotation gauge with axis pair (i, j), i # j,
\* hands back a vector that differs from v only in components i and j,
\* which are v[i], v[j] rotated by omega dt; the array passed in is not
\* modified.  The null gauge's rotate hands back v itself, unchanged.
C19_RotateTouchesOnlyAxisPair ==
    Rotated =>
        /\ probe.arrays[CallerRef] = probe.input
        /\ probe.gauge.kind = "NullGauge" =>
              /\ probe.ref = CallerRef
              /\ RotOut = probe.input
        /\ probe.gauge.kind = "CoriolisGauge" =>
              /\ probe.ref # CallerRef
              /\ Len(RotOut) = Len(probe.input)
              /\ \A k \in 1..Len(probe.input) :
                    k \notin {RotAxisI, RotAxisJ} => RotOut[k] = probe.input[k]
              /\ RotOut[RotAxisI] =
                    Cos(probe.gauge.omega * probe.dt) * probe.input[RotAxisI]
                    - Sin(probe.gauge.omega * probe.dt) * probe.input[RotAxisJ]
              /\ RotOut[RotAxisJ] =
                    Sin(probe.gauge.omega * probe.dt) * probe.input[RotAxisI]
                    + Cos(probe.gauge.omega * probe.dt) * probe.input[RotAxisJ]

\* a quarter turn in the plane (0, 2) of a vector of four components: the
\* pair has changed, the two others and the caller's array have not
C19_Witness ==
    /\ Rotated
    /\ probe.gauge.kind = "CoriolisGauge"
    /\ probe.gauge.axis = <<0, 2>>
    /\ Len(probe.input) = 4
    /\ RotOut[1] # probe.input[1]
    /\ RotOut[3] # probe.input[3]
    /\ RotOut[2] = probe.input[2]
    /\ RotOut[4] = probe.input[4]
    /\ probe.arrays[CallerRef] = probe.input

\* the engine of the last call has a rotation gauge and nothing else: no
\* force layer, no damping, no noise
RotationAlone ==
    /\ pre.engine.gauge.kind = "CoriolisGauge"
    /\ pre.engine.force_layers = <<>>
    /\ Gamma(pre.engine) = 0
    /\ NoiseSigma(pre.engine) = 0

\* C20: with a rotation gauge alone, every update hands back a velocity of
\* the same length |v| as the one it was given, whatever dt and however
\* many updates came before; so |v| stays what it was initially.
C20_RotationKeepsSpeed ==
    (UpdateReturned /\ RotationAlone) =>
        /\ pre.engine.use_strang
        /\ Dot(RetV, RetV) = Dot(PreV, PreV)

\* the second update in a row of such an engine, the velocity turned
C20_Witness ==
    /\ UpdateReturned
    /\ RotationAlone
    /\ okCount = 2
    /\ RetV # PreV
    /\ Dot(RetV, RetV) = Dot(PreV, PreV)
    /\ Dot(PreV, PreV) > 0

\* the entries an engine built from a alone leaves when updated n times
\* from vec, no other engine being there
RECURSIVE SoloEntries(_, _, _, _)
SoloEntries(eng, st, arr, n) ==
    IF n = 0 THEN <<>>
    ELSE Bind(UpdateCall(eng, st, arr,
                         IF st.state_vector = CallerRef THEN FreshRef ELSE CallerRef),
              LAMBDA out :
              <<TwinEntry(out)>>
              \o SoloEntries(out.engine,
                             IF out.kind = "returned" THEN Get(out.state) ELSE st,
                             out.arrays, n - 1))

Solo(side) ==
    SoloEntries(NewEngine(side.args), GlobalState(CallerRef, 0),
                [r \in {CallerRef, FreshRef} |-> IF r = CallerRef THEN side.vec ELSE <<>>],
                Len(side.hist))

TwinBuilt == twin.op # "idle"

\* C17: two engines built with the same configuration and noise seed and
\* updated from the same initial state give the same sequence of states:
\* update k of one leaves the state vector, energy, elapsed time and
\* generator (so the draws) that update k of the other leaves.
C17_SameSeedSameTrajectory ==
    (/\ TwinBuilt
     /\ twin.a.args = twin.b.args
     /\ twin.a.vec = twin.b.vec) =>
        \A k \in 1..Len(twin.a.hist) :
            k <= Len(twin.b.hist) => twin.a.hist[k] = twin.b.hist[k]

\* both of two like engines have made all their updates and have drawn
C17_Witness ==
    /\ TwinBuilt
    /\ twin.a.args = twin.b.args
    /\ twin.a.vec = twin.b.vec
    /\ Len(twin.a.hist) = MaxTwinSteps
    /\ Len(twin.b.hist) = MaxTwinSteps
    /\ twin.a.hist = twin.b.hist
    /\ twin.a.hist[MaxTwinSteps].kind = "returned"
    /\ twin.a.hist[MaxTwinSteps].rng.pos > 0

\* C18: whatever the order of the updates of two separately built engines,
\* each has its own elapsed time and its own generator, and the states,
\* times and generator positions of each are those of the same engine
\* updated alone.
C18_EnginesIndependent ==
    TwinBuilt =>
        /\ twin.a.rng # twin.b.rng
        /\ twin.a.hist = Solo(twin.a)
        /\ twin.b.hist = Solo(twin.b)
        /\ twin.a.engine.time = Len(twin.a.hist) * twin.a.engine.dt
        /\ twin.b.engine.time = Len(twin.b.hist) * twin.b.engine.dt

\* engine b was updated between two updates of engine a, both drawing and
\* with steps of different size
C18_Witness ==
    /\ twin.op = "update_a"
    /\ Len(twin.a.hist) = 2
    /\ Len(twin.b.hist) = 1
    /\ twin.a.engine.dt # twin.b.engine.dt
    /\ twin.a.args.noise_seed = twin.b.args.noise_seed
    /\ twin.a.hist[2].rng.pos > twin.a.hist[1].rng.pos
    /\ twin.b.hist[1].rng.pos > 0
    /\ twin.a.hist = Solo(twin.a)

\* the force() calls of the last update whose answer has not the length of
\* the state's dimension
MismatchedForceCalls ==
    {k \in 1..Len(outcome.log) :
        /\ outcome.log[k].op = "force"
        /\ LET r == LayerForce(pre.engine.force_layers[outcome.log[k].layer],
                               outcome.log[k].args[1], outcome.log[k].args[2],
                               outcome.log[k].args[3])
           IN  r.ok /\ Len(r.val) # PreDim}

\* C21: when a force layer answers with a vector whose length is not the
\* state's dimension, update reports it to the caller by raising; it never
\* returns a state computed from such an answer, and a returned state has
\* the dimension of the one passed in.
C21_MismatchReported ==
    Updated =>
        /\ MismatchedForceCalls # {} => outcome.kind = "raised"
        /\ UpdateReturned => Len(RetVec) = Len(pre.state_vector)

\* C22: a Layer argument wins over the Classic parameters of its component.
\* force_layers given: the engine's force layers are that list, and
\* potential_func, injection_func and rotational_func add none.
\* gauge_layer given: it is the gauge, omega_coriolis is ignored.
\* thermo_layer given: it is the thermostat; gamma, temperature, mass and
\* noise_sigma are ignored.  With Classic parameters only, the force layers
\* are the gradient force, then the injection force, then (only when
\* omega_coriolis is None) the rotational callback force.
C22_LayerArgumentsWin ==
    /\ ~IsNone(args.force_layers) => engine.force_layers = Get(args.force_layers)
    /\ ~IsNone(args.gauge_layer) => engine.gauge = Get(args.gauge_layer)
    /\ ~IsNone(args.thermo_layer) => engine.thermo = Get(args.thermo_layer)
    /\ IsNone(args.force_layers) =>
          /\ Len(engine.force_layers) =
                (IF IsNone(args.potential_func) THEN 0 ELSE 1)
                + (IF IsNone(args.injection_func) THEN 0 ELSE 1)
                + (IF IsNone(args.rotational_func) \/ ~IsNone(args.omega_coriolis)
                   THEN 0 ELSE 1)
          /\ \A k \in 1..Len(engine.force_layers) :
                LET kind == engine.force_layers[k].kind
                IN  /\ kind = "GradientForce" =>
                          /\ k = 1
                          /\ ~IsNone(args.potential_func)
                          /\ engine.force_layers[k] =
                                GradientForce(Get(args.potential_func), args.field_func,
                                              engine.epsilon)
                    /\ kind = "InjectionForce" =>
                          /\ ~IsNone(args.injection_func)
                          /\ engine.force_layers[k].injection_func = Get(args.injection_func)
                          /\ k = (IF IsNone(args.potential_func) THEN 1 ELSE 2)
                    /\ kind = "CallbackForce" =>
                          /\ ~IsNone(args.rotational_func)
                          /\ IsNone(args.omega_coriolis)
                          /\ engine.force_layers[k].callback = Get(args.rotational_func)
                          /\ k = Len(engine.force_layers)
    /\ IsNone(args.gauge_layer) =>
          engine.gauge = (IF IsNone(args.omega_coriolis) THEN NullGauge
                          ELSE CoriolisGauge(Get(args.omega_coriolis), args.rotation_axis))
    /\ IsNone(args.thermo_layer) =>
          engine.thermo = LangevinThermo(args.gamma, args.temperature, args.mass,
                                         args.noise_sigma)

\* an engine given all three Layer arguments and every Classic parameter
\* beside them, after an update
C22_Witness ==
    /\ UpdateReturned
    /\ args.force_layers = Some(<<>>)
    /\ args.gauge_layer = Some(NullGauge)
    /\ args.thermo_layer = Some(NullThermo)
    /\ ~IsNone(args.potential_func)
    /\ ~IsNone(args.injection_func)
    /\ ~IsNone(args.rotational_func)
    /\ args.omega_coriolis = Some(1)
    /\ args.gamma = 1
    /\ engine.force_layers = <<>>
    /\ ~engine.use_strang

\* the names of the checks in a list of results, in order
CheckNames(results) == [k \in 1..Len(results) |-> results[k].check]

\* C23: check_limits without a state returns exactly two results, the
\* skew-symmetry check then the FDT check; with a state it returns exactly
\* four, in the order skew symmetry, FDT, dimensions, conservation.  In
\* both cases the engine's elapsed time and generator are as before the call.
C23_RunAllResults ==
    CheckedLimits =>
        /\ engine.time = pre.engine.time
        /\ engine.rng = pre.engine.rng
        /\ outcome.kind = "returned" =>
              CheckNames(outcome.results) =
                 IF outcome.with_state
                 THEN <<"skew_symmetry", "fdt_consistency", "dimensions", "conservation">>
                 ELSE <<"skew_symmetry", "fdt_consistency">>

\* check_limits returned with a state given, on an engine with elapsed time
\* and a used generator
C23_Witness ==
    /\ CheckedLimits
    /\ outcome.kind = "returned"
    /\ outcome.with_state
    /\ Len(outcome.results) = 4
    /\ engine.time > 0
    /\ engine.rng.pos > 0

\* check_limits returned without a state
C23_StaticWitness ==
    /\ CheckedLimits
    /\ outcome.kind = "returned"
    /\ ~outcome.with_state
    /\ Len(outcome.results) = 2
    /\ engine.time > 0

\* v . I(x, v, t) summed over the injection layers from index k on
RECURSIVE InjectedPower(_, _, _, _, _)
InjectedPower(layers, x, v, t, k) ==
    IF k > Len(layers) THEN 0
    ELSE (IF layers[k].kind = "InjectionForce"
          THEN Dot(v, InjectionFunc(layers[k].injection_func, x, v, t).val)
          ELSE 0)
         + InjectedPower(layers, x, v, t, k + 1)

\* C24: the injection_power an update writes is the sum of
\* v_new . I(x_new, v_new, t) over the injection layers only, t the elapsed
\* time after the update: 0 with no injection layer, and no callback layer
\* contributes to it.
C24_InjectionPowerOverInjectionLayers ==
    UpdateReturned =>
        /\ RetExt.injection_power =
              InjectedPower(engine.force_layers, RetX, RetV, engine.time, 1)
        /\ (\A k \in 1..Len(engine.force_layers) :
               engine.force_layers[k].kind # "InjectionForce")
              => RetExt.injection_power = 0

\* an update of an engine with an injection layer and a callback layer, the
\* callback layer pushing along the new velocity and the injection power
\* not zero
C24_Witness ==
    /\ UpdateReturned
    /\ \E k \in 1..Len(engine.force_layers) :
          engine.force_layers[k].kind = "InjectionForce"
    /\ \E k \in 1..Len(engine.force_layers) :
          /\ engine.force_layers[k].kind = "CallbackForce"
          /\ Dot(RetV, CallbackFunc(engine.force_layers[k].callback, RetX).val) # 0
    /\ RetExt.injection_power # 0

\* an update of an engine with a callback layer and no injection layer
C24_CallbackOnlyWitness ==
    /\ UpdateReturned
    /\ \E k \in 1..Len(engine.force_layers) :
          /\ engine.force_layers[k].kind = "CallbackForce"
          /\ Dot(RetV, CallbackFunc(engine.force_layers[k].callback, RetX).val) # 0
    /\ \A k \in 1..Len(engine.force_layers) :
          engine.force_layers[k].kind # "InjectionForce"
    /\ RetExt.injection_power = 0

ProbedGradient == probe.op = "gradient_force"

\* x moved by d along axis i
AlongAxis(x, i, d) == [k \in 1..Len(x) |-> IF k = i THEN x[k] + d ELSE x[k]]

\* C25: force(x, v, t) of a gradient layer with a field function returns
\* the field function's value at x and evaluates the potential nowhere;
\* without one it evaluates the potential exactly twice per axis, at
\* x + eps and x - eps along that axis, and returns the negated central
\* difference.  In both cases x is as it was given, and the result is the
\* one for any other v and t.
C25_GradientForce ==
    ProbedGradient =>
        /\ probe.x = probe.input
        /\ ~IsNone(probe.layer.field_func) =>
              /\ probe.evals = <<>>
              /\ probe.result = FieldFunc(Get(probe.layer.field_func), probe.input)
        /\ (IsNone(probe.layer.field_func) /\ probe.result.ok) =>
              /\ probe.evals =
                    [k \in 1..(2 * Len(probe.input)) |->
                        AlongAxis(probe.input, (k + 1) \div 2,
                                  IF k % 2 = 1 THEN probe.layer.epsilon
                                  ELSE -probe.layer.epsilon)]
              /\ probe.result.val =
                    [i \in 1..Len(probe.input) |->
                        -TruncDiv(
                            PotentialFunc(probe.layer.potential_func,
                                AlongAxis(probe.input, i, probe.layer.epsilon)).val
                            - PotentialFunc(probe.layer.potential_func,
                                AlongAxis(probe.input, i, -probe.layer.epsilon)).val,
                            2 * (2 * probe.layer.epsilon))]
        /\ \A v \in {[i \in 1..Len(probe.input) |-> c] : c \in {0, 1}}, t \in {0, 2} :
              GradientForce_force(probe.layer, probe.input, v, t) = probe.result

\* a central difference with a slope, taken with v and t not zero
C25_Witness ==
    /\ ProbedGradient
    /\ IsNone(probe.layer.field_func)
    /\ probe.result.ok
    /\ Len(probe.evals) = 4
    /\ probe.result.val = <<-2, 3>>
    /\ probe.t = 2

\* a field function's value returned with no potential evaluated
C25_FieldWitness ==
    /\ ProbedGradient
    /\ probe.layer.field_func = Some("restoring")
    /\ probe.layer.potential_func = "hopfield"
    /\ probe.result = Ok(<<-2, 3>>)
    /\ probe.evals = <<>>

\* the step of the last update was the Euler step, and it ended
EulerStepped == UpdateReturned /\ outcome.step = "euler"

\* v + dt a, a the total force at the state the update was given
Euler_v_tmp ==
    VAdd(PreV, VScale(pre.engine.dt,
                      TotalForce(pre.engine, PreX, PreV, pre.engine.time).val))

\* C26: in Euler mode the new velocity is the configured thermo layer
\* applied over the full step, v_new = thermo.ou_step(v + dt a, dt, rng),
\* whatever thermo layer the engine was built with.
C26_EulerAppliesThermoLayer ==
    EulerStepped =>
        RetV = OuStep(pre.engine.thermo, Euler_v_tmp, pre.engine.dt, pre.engine.rng).v

\* the samples k+1 .. k+n of the stream the engine held before the update
DrawsAfter(k, n) ==
    [i \in 1..n |-> Xi(pre.engine.rng.seed, pre.engine.rng.pos + k + i)]

\* the state vector the last update would have returned had the engine's
\* generator been seeded otherwise
RetVecOtherSeed ==
    Bind(UpdateCall([pre.engine EXCEPT !.rng.seed = pre.engine.rng.seed + 1],
                    GlobalState(CallerRef, pre.energy2),
                    [r \in {CallerRef, FreshRef} |->
                        IF r = CallerRef THEN pre.state_vector ELSE <<>>],
                    FreshRef), LAMBDA out :
    IF out.kind = "returned" THEN out.arrays[Get(out.state).state_vector] ELSE <<>>)

\* the velocity the second thermo half-step of the last update was given
LastOuStepInput ==
    LET calls_ou == {k \in 1..Len(outcome.log) : outcome.log[k].op = "ou_step"}
        last == CHOOSE k \in calls_ou : \A j \in calls_ou : j <= k
    IN  outcome.log[last].args[1]

\* C27: only noise consumes the generator.  With sigma = 0 an update draws
\* nothing and returns what it returns under any other seed; with
\* sigma > 0 it draws one sample per dimension in Euler mode and one per
\* dimension in each of the two thermo half-steps in Strang mode; and at
\* gamma = 0, sigma > 0 the noise added is sigma sqrt(h) times the samples.
C27_OnlyNoiseDraws ==
    UpdateReturned =>
        /\ NoiseSigma(pre.engine) = 0 =>
              /\ engine.rng = pre.engine.rng
              /\ RetVec = RetVecOtherSeed
        /\ NoiseSigma(pre.engine) > 0 =>
              engine.rng.pos - pre.engine.rng.pos =
                 IF outcome.step = "euler" THEN PreDim ELSE 2 * PreDim
        /\ engine.rng.seed = pre.engine.rng.seed
        /\ (NoiseSigma(pre.engine) > 0 /\ Gamma(pre.engine) = 0) =>
              IF outcome.step = "euler"
              THEN RetV = VAdd(Euler_v_tmp,
                               VScale(Isqrt(NoiseSigma(pre.engine) * NoiseSigma(pre.engine)
                                            * pre.engine.dt),
                                      DrawsAfter(0, PreDim)))
              ELSE RetV = VAdd(LastOuStepInput,
                               VScale(Isqrt(NoiseSigma(pre.engine) * NoiseSigma(pre.engine)
                                            * (pre.engine.dt \div 2)),
                                      DrawsAfter(PreDim, PreDim)))

\* a Strang update with gamma = 0 and noise: two draws per dimension, the
\* last of them not zero
C27_Witness ==
    /\ UpdateReturned
    /\ outcome.step = "strang"
    /\ NoiseSigma(pre.engine) > 0
    /\ Gamma(pre.engine) = 0
    /\ engine.rng.pos = pre.engine.rng.pos + 2 * PreDim
    /\ \E i \in 1..PreDim : DrawsAfter(PreDim, PreDim)[i] # 0

\* an Euler update with noise, and one without on an engine with friction
C27_EulerWitness ==
    /\ UpdateReturned
    /\ outcome.step = "euler"
    /\ NoiseSigma(pre.engine) > 0
    /\ Gamma(pre.engine) = 0
    /\ engine.rng.pos = pre.engine.rng.pos + PreDim
    /\ pre.engine.rng.pos > 0

C27_QuietWitness ==
    /\ UpdateReturned
    /\ NoiseSigma(pre.engine) = 0
    /\ Gamma(pre.engine) > 0
    /\ RetV # PreV

\* K + V (doubled) of the position and velocity check_conservation was
\* given, as the clone's updates measure energy
Cons_physical ==
    Mass(Cons_clone) * Dot(PreV, PreV) + TotalPotential(Cons_clone, PreX).val

\* C28: check_conservation measures the drift against the physical energy
\* of the initial state: E_0 is K + V of initial_state's position and
\* velocity, whatever initial_state.energy holds, and a run whose energy
\* is exactly constant passes.
C28_DriftAgainstPhysicalEnergy ==
    CheckedConservation =>
        LET E0 == Cons_physical
            ds == Cons_drifts(E0)
        IN  /\ outcome.results[4].pass =
                  (\A k \in 1..Len(ds) :
                      IF E0 # 0 THEN 100 * ds[k] < Abs(E0) ELSE ds[k] = 0)
            /\ (\A k \in 1..Len(ds) : ds[k] = 0) => outcome.results[4].pass

\* the engine check_conservation advances in place of the one it was given
Cons_eng_copy == ConservationClone(pre.engine)

\* C29: the clone check_conservation advances differs from the engine only
\* in the thermostat's behaviour and in the force layers left out: its dt,
\* gauge and integration mode are the engine's, and so is the mass m of
\* K = 1/2 m |v|^2.
C29_CloneKeepsMass ==
    CheckedConservation =>
        /\ Cons_eng_copy.dt = pre.engine.dt
        /\ Cons_eng_copy.gauge = pre.engine.gauge
        /\ Cons_eng_copy.use_strang = pre.engine.use_strang
        /\ Mass(Cons_eng_copy) = Mass(pre.engine)


\* get_state was the last call
GotState == outcome.op = "get_state"

\* C30: the record get_state() returns agrees with the layers in use:
\* has_injection is true exactly when the force-layer list holds an
\* injection layer, n_force_layers is the length of the list, gauge_type
\* and thermo_type name the gauge and thermo layers, and time is the
\* elapsed time, for engines built through the Classic or the Layer API.
C30_GetStateAgreesWithLayers ==
    GotState =>
        /\ probe.record.has_injection =
              (\E k \in 1..Len(engine.force_layers) :
                  engine.force_layers[k].kind = "InjectionForce")
        /\ probe.record.n_force_layers = Len(engine.force_layers)
        /\ probe.record.gauge_type = engine.gauge.kind
        /\ probe.record.thermo_type = engine.thermo.kind
        /\ probe.record.time = engine.time
=============================================================================
